---- MODULE Spec2Model ----
(***************************************************************************)
(* Model of the BelegPilot extraction pipeline: budget gate, VLM           *)
(* extractor, OCR extractor, confidence validator, categorizer and the     *)
(* orchestrating ExtractionPipeline.process.                               *)
(*                                                                         *)
(* Conventions                                                             *)
(*   - Python Optional values: None is <<>>, a present value x is <<x>>.   *)
(*   - Python str values that the code inspects are sequences of           *)
(*     one-character strings; opaque labels (model names, categories,      *)
(*     statuses) are TLA+ strings.                                         *)
(*   - USD amounts of the spend ledger are integers in units of 1e-8 USD   *)
(*     (one cent per million tokens times one token).                      *)
(*   - Receipt amounts are integers in cents; tax rates in percent.        *)
(*   - Confidence scores are integers in thousandths (1.0 is 1000).        *)
(***************************************************************************)
EXTENDS Integers, Sequences, FiniteSets, TLC

VARIABLES
    pc,        \* per invocation of process: the position in the code
    request,   \* per invocation: content_type and the ExtractionRequest
    vlm,       \* per invocation: locals of OpenRouterClient.extract_receipt
    local,     \* per invocation: locals of ExtractionPipeline.process
    outcome,   \* per invocation: what process handed to its caller
    trace,     \* per invocation: what the invocation did (observation only)
    ledger,    \* cost_tracker rows appended by record_cost (shared)
    prior,     \* spend already in cost_tracker: earlier today / earlier this month
    records    \* per invocation: the extractions row stored by _store_result

vars == <<pc, request, vlm, local, outcome, trace, ledger, prior, records>>

----------------------------------------------------------------------------
(* Bounds *)

NumRequests == 2     \* invocations of process
MaxLedger == 2       \* cost_tracker rows appended during a run

Requests == 1..NumRequests

----------------------------------------------------------------------------
(* Optional values and strings *)

None == <<>>
Some(x) == <<x>>
IsNone(o) == o = <<>>
\* Python truthiness of an Optional[str] / Optional[list]
TruthySeq(o) == o # <<>> /\ o[1] # <<>>
\* Python truthiness of an Optional[float]
TruthyNum(o) == o # <<>> /\ o[1] # 0

UpperCase == <<"A","B","C","D","E","F","G","H","I","J","K","L","M",
               "N","O","P","Q","R","S","T","U","V","W","X","Y","Z">>
LowerCase == <<"a","b","c","d","e","f","g","h","i","j","k","l","m",
               "n","o","p","q","r","s","t","u","v","w","x","y","z">>
Digits == <<"0","1","2","3","4","5","6","7","8","9">>

IsDigit(c) == \E i \in 1..10 : Digits[i] = c
DigitVal(c) == (CHOOSE i \in 1..10 : Digits[i] = c) - 1

LowerChar(c) ==
    IF \E i \in 1..26 : UpperCase[i] = c
    THEN LowerCase[CHOOSE i \in 1..26 : UpperCase[i] = c]
    ELSE c
UpperChar(c) ==
    IF \E i \in 1..26 : LowerCase[i] = c
    THEN UpperCase[CHOOSE i \in 1..26 : LowerCase[i] = c]
    ELSE c
Lower(s) == [i \in 1..Len(s) |-> LowerChar(s[i])]
Upper(s) == [i \in 1..Len(s) |-> UpperChar(s[i])]

\* Python `kw in s`
Contains(s, kw) ==
    \E i \in 1..(Len(s) - Len(kw) + 1) : SubSeq(s, i, i + Len(kw) - 1) = kw

\* value of a sequence of decimal digits
RECURSIVE DigitsVal(_)
DigitsVal(s) ==
    IF s = <<>> THEN 0
    ELSE 10 * DigitsVal(SubSeq(s, 1, Len(s) - 1)) + DigitVal(s[Len(s)])

AllDigits(s) == \A i \in 1..Len(s) : IsDigit(s[i])

----------------------------------------------------------------------------
(* Calendar dates: records [y, m, d]; datetime.date ordering via ordinals *)

IsLeap(y) == (y % 4 = 0 /\ y % 100 # 0) \/ y % 400 = 0

DaysInMonth(y, m) ==
    IF m = 2 THEN (IF IsLeap(y) THEN 29 ELSE 28)
    ELSE IF m \in {4, 6, 9, 11} THEN 30 ELSE 31

RECURSIVE DaysBeforeMonth(_, _)
DaysBeforeMonth(y, m) ==
    IF m <= 1 THEN 0 ELSE DaysBeforeMonth(y, m - 1) + DaysInMonth(y, m - 1)

\* datetime.date accepts years 1..9999
ValidDate(y, m, d) ==
    /\ y >= 1 /\ y <= 9999
    /\ m >= 1 /\ m <= 12
    /\ d >= 1 /\ d <= DaysInMonth(y, m)

Ordinal(dt) ==
    LET y1 == dt.y - 1
    IN  365 * y1 + (y1 \div 4) - (y1 \div 100) + (y1 \div 400)
        + DaysBeforeMonth(dt.y, dt.m) + dt.d

\* date.today() of the run
Today == [y |-> 2026, m |-> 11, d |-> 5]

\* pydantic's parsing of a str into datetime.date: exactly YYYY-MM-DD
\* naming a calendar date; None when the string is rejected
ParseIsoDate(s) ==
    IF /\ Len(s) = 10
       /\ s[5] = "-" /\ s[8] = "-"
       /\ AllDigits(SubSeq(s, 1, 4))
       /\ AllDigits(SubSeq(s, 6, 7))
       /\ AllDigits(SubSeq(s, 9, 10))
    THEN LET y == DigitsVal(SubSeq(s, 1, 4))
             m == DigitsVal(SubSeq(s, 6, 7))
             d == DigitsVal(SubSeq(s, 9, 10))
         IN  IF ValidDate(y, m, d) THEN Some([y |-> y, m |-> m, d |-> d])
             ELSE None
    ELSE None

----------------------------------------------------------------------------
(* schemas.py *)

ExpenseCategory ==
    {"groceries", "restaurant", "transport", "office", "accommodation",
     "entertainment", "utilities", "other"}

\* ReceiptData() with every field at its default
EmptyReceipt ==
    [vendor |-> None, date |-> None, total_amount |-> None,
     currency |-> None, tax_amount |-> None, tax_rate |-> None,
     line_items |-> <<>>, payment_method |-> None,
     receipt_number |-> None, category |-> "other"]

\* the fields of a ReceiptData other than its category
DataFields ==
    {"vendor", "date", "total_amount", "currency", "tax_amount", "tax_rate",
     "line_items", "payment_method", "receipt_number"}

\* a LineItem built whatever its total
LineItemValid_Any(item) == TRUE

\* LineItem.total_must_be_positive: construction fails for a negative total
LineItemValid(item) == item.total >= 0

----------------------------------------------------------------------------
(* config.py and the pricing table of services/openrouter.py *)

\* settings.openrouter_daily_budget_usd = 1.0, in 1e-8 USD
DailyLimit == 100000000
\* settings.openrouter_monthly_budget_usd = 5.0, in 1e-8 USD
MonthlyLimit == 500000000

DefaultModel == "qwen/qwen2.5-vl-72b-instruct"
FallbackModel == "openai/gpt-4o-mini"

\* MODEL_COSTS: USD cents per 1M tokens
MODEL_COSTS ==
    [m \in {"qwen/qwen2-vl-72b-instruct", "openai/gpt-4o-mini",
            "openai/gpt-4o", "qwen/qwen2-vl-7b-instruct"} |->
        CASE m = "qwen/qwen2-vl-72b-instruct" -> [input |-> 40, output |-> 40]
          [] m = "openai/gpt-4o-mini" -> [input |-> 15, output |-> 60]
          [] m = "openai/gpt-4o" -> [input |-> 250, output |-> 1000]
          [] m = "qwen/qwen2-vl-7b-instruct" -> [input |-> 10, output |-> 10]]

\* the rates estimate_cost uses for a model missing from MODEL_COSTS
DefaultCosts == [input |-> 100, output |-> 100]

\* estimate_cost charging the output tokens at the input rate
estimate_cost_InputRateOnly(model, input_tokens, output_tokens) ==
    LET costs == IF model \in DOMAIN MODEL_COSTS THEN MODEL_COSTS[model]
                 ELSE DefaultCosts
    IN  input_tokens * costs.input + output_tokens * costs.input

\* estimate_cost; tokens * (cents per 1M tokens) is the cost in 1e-8 USD
estimate_cost(model, input_tokens, output_tokens) ==
    LET costs == IF model \in DOMAIN MODEL_COSTS THEN MODEL_COSTS[model]
                 ELSE DefaultCosts
    IN  input_tokens * costs.input + output_tokens * costs.output

\* the retry decorator of extract_receipt: stop_after_attempt(3)
MaxAttempts == 3

----------------------------------------------------------------------------
(* Budget gate: get_daily_spend, get_monthly_spend, select_model *)

RECURSIVE SumCost(_)
SumCost(rows) ==
    IF rows = <<>> THEN 0 ELSE rows[1].cost_usd + SumCost(Tail(rows))

\* every row of the run is dated today, hence also this month
get_daily_spend == prior.daily + SumCost(ledger)
get_monthly_spend == prior.earlier_days + prior.daily + SumCost(ledger)

\* select_model refusing only at the daily limit itself
select_model_AtLimit(daily_spend, monthly_spend) ==
    IF monthly_spend >= MonthlyLimit
    THEN [refused |-> TRUE, scope |-> "monthly", model |-> None]
    ELSE IF daily_spend >= DailyLimit
    THEN [refused |-> TRUE, scope |-> "daily", model |-> None]
    ELSE IF daily_spend >= (DailyLimit \div 100) * 80
    THEN [refused |-> FALSE, scope |-> "none", model |-> Some(FallbackModel)]
    ELSE [refused |-> FALSE, scope |-> "none", model |-> Some(DefaultModel)]

\* select_model with the daily tiers tested before the monthly limit
select_model_DailyFirst(daily_spend, monthly_spend) ==
    IF daily_spend >= (DailyLimit \div 100) * 95
    THEN [refused |-> TRUE, scope |-> "daily", model |-> None]
    ELSE IF monthly_spend >= MonthlyLimit
    THEN [refused |-> TRUE, scope |-> "monthly", model |-> None]
    ELSE IF daily_spend >= (DailyLimit \div 100) * 80
    THEN [refused |-> FALSE, scope |-> "none", model |-> Some(FallbackModel)]
    ELSE [refused |-> FALSE, scope |-> "none", model |-> Some(DefaultModel)]

\* select_model after both sums are read: the model to use, or the refusal
select_model(daily_spend, monthly_spend) ==
    IF monthly_spend >= MonthlyLimit
    THEN [refused |-> TRUE, scope |-> "monthly", model |-> None]
    ELSE IF daily_spend >= (DailyLimit \div 100) * 95
    THEN [refused |-> TRUE, scope |-> "daily", model |-> None]
    ELSE IF daily_spend >= (DailyLimit \div 100) * 80
    THEN [refused |-> FALSE, scope |-> "none", model |-> Some(FallbackModel)]
    ELSE [refused |-> FALSE, scope |-> "none", model |-> Some(DefaultModel)]

----------------------------------------------------------------------------
(* core/validator.py; scores in thousandths, weights in hundredths *)

WEIGHTS ==
    [vendor |-> 15, date |-> 15, total |-> 25, line_items |-> 25,
     tax |-> 10, format |-> 10]

_score_vendor(data) ==
    IF ~TruthySeq(data.vendor) THEN 0
    ELSE IF Len(data.vendor[1]) < 2 \/ Len(data.vendor[1]) > 200 THEN 300
    ELSE 1000

\* data.date is a datetime.date once ReceiptData is constructed, so the
\* fromisoformat branch and its except clause are never taken
_score_date(data) ==
    IF IsNone(data.date) THEN 0
    ELSE IF Ordinal(data.date[1]) > Ordinal(Today) + 1 THEN 200
    ELSE IF Ordinal(data.date[1]) < Ordinal(Today) - 730 THEN 500
    ELSE 1000

_score_total(data) ==
    IF IsNone(data.total_amount) THEN 0
    ELSE IF data.total_amount[1] <= 0 THEN 100
    ELSE IF data.total_amount[1] > 10000000 THEN 300
    ELSE 1000

RECURSIVE SumTotals(_)
SumTotals(items) ==
    IF items = <<>> THEN 0 ELSE items[1].total + SumTotals(Tail(items))

\* _score_line_items without the test of items_sum
_score_line_items_AnySum(data) ==
    IF data.line_items = <<>> THEN 300
    ELSE IF TruthyNum(data.total_amount) /\ data.total_amount[1] > 0
    THEN LET items_sum == SumTotals(data.line_items)
             total == data.total_amount[1]
         IN  IF 10 * items_sum >= 9 * total /\ 10 * items_sum <= 11 * total
             THEN 1000
             ELSE IF 10 * items_sum >= 7 * total /\ 10 * items_sum <= 13 * total
             THEN 700
             ELSE 400
    ELSE 600

_score_line_items(data) ==
    IF data.line_items = <<>> THEN 300
    ELSE IF TruthyNum(data.total_amount) /\ data.total_amount[1] > 0
              /\ SumTotals(data.line_items) > 0
    THEN LET items_sum == SumTotals(data.line_items)
             total == data.total_amount[1]
         IN  IF 10 * items_sum >= 9 * total /\ 10 * items_sum <= 11 * total
             THEN 1000
             ELSE IF 10 * items_sum >= 7 * total /\ 10 * items_sum <= 13 * total
             THEN 700
             ELSE 400
    ELSE 600

Min(a, b) == IF a <= b THEN a ELSE b

\* _score_tax with a penalty larger than the score it is taken from
_score_tax_LargePenalty(data) ==
    IF IsNone(data.tax_amount) /\ IsNone(data.tax_rate) THEN 500
    ELSE LET amount_part ==
                 IF ~IsNone(data.tax_amount) /\ data.tax_amount[1] > 0
                 THEN 250 - (IF TruthyNum(data.total_amount)
                                 /\ data.tax_amount[1] > data.total_amount[1]
                             THEN 800 ELSE 0)
                 ELSE 0
             rate_part ==
                 IF IsNone(data.tax_rate) THEN 0
                 ELSE IF data.tax_rate[1] \in {7, 19, 20, 21, 25, 0} THEN 250
                 ELSE IF 0 < data.tax_rate[1] /\ data.tax_rate[1] < 30 THEN 150
                 ELSE 0
         IN  Min(500 + amount_part + rate_part, 1000)

_score_tax(data) ==
    IF IsNone(data.tax_amount) /\ IsNone(data.tax_rate) THEN 500
    ELSE LET amount_part ==
                 IF ~IsNone(data.tax_amount) /\ data.tax_amount[1] > 0
                 THEN 250 - (IF TruthyNum(data.total_amount)
                                 /\ data.tax_amount[1] > data.total_amount[1]
                             THEN 300 ELSE 0)
                 ELSE 0
             rate_part ==
                 IF IsNone(data.tax_rate) THEN 0
                 ELSE IF data.tax_rate[1] \in {7, 19, 20, 21, 25, 0} THEN 250
                 ELSE IF 0 < data.tax_rate[1] /\ data.tax_rate[1] < 30 THEN 150
                 ELSE 0
         IN  Min(500 + amount_part + rate_part, 1000)

\* the scores with nothing granted for a receipt without items or for a
\* reply that did not parse
FieldScores_NoFloor(data, vlm_parsed_cleanly) ==
    [vendor |-> _score_vendor(data),
     date |-> _score_date(data),
     total |-> _score_total(data),
     line_items |-> IF data.line_items = <<>> THEN 0
                    ELSE _score_line_items(data),
     tax |-> _score_tax(data),
     format |-> IF vlm_parsed_cleanly THEN 1000 ELSE 0]

FieldScores(data, vlm_parsed_cleanly) ==
    [vendor |-> _score_vendor(data),
     date |-> _score_date(data),
     total |-> _score_total(data),
     line_items |-> _score_line_items(data),
     tax |-> _score_tax(data),
     format |-> IF vlm_parsed_cleanly THEN 1000 ELSE 300]

\* the sum taken without the format term
WeightedSum_SkipsFormat(scores) ==
    scores.vendor * WEIGHTS.vendor + scores.date * WEIGHTS.date
    + scores.total * WEIGHTS.total + scores.line_items * WEIGHTS.line_items
    + scores.tax * WEIGHTS.tax

\* sum(scores[field] * weight), in 1e-5
WeightedSum(scores) ==
    scores.vendor * WEIGHTS.vendor + scores.date * WEIGHTS.date
    + scores.total * WEIGHTS.total + scores.line_items * WEIGHTS.line_items
    + scores.tax * WEIGHTS.tax + scores.format * WEIGHTS.format

\* round(overall, 3), in thousandths
Round3(x) == (x + 50) \div 100

\* validate_and_score handing back data it has corrected: a total that is
\* not positive is cleared
validate_and_score_Corrects(data, vlm_parsed_cleanly) ==
    LET scores == FieldScores(data, vlm_parsed_cleanly)
    IN  [data |-> IF ~IsNone(data.total_amount) /\ data.total_amount[1] <= 0
                  THEN [data EXCEPT !.total_amount = None] ELSE data,
         confidence |-> Round3(WeightedSum(scores)),
         field_scores |-> scores]

\* validate_and_score: the data is returned unchanged
validate_and_score(data, vlm_parsed_cleanly) ==
    LET scores == FieldScores(data, vlm_parsed_cleanly)
    IN  [data |-> data,
         confidence |-> Round3(WeightedSum(scores)),
         field_scores |-> scores]

\* VLM_CONFIDENCE_THRESHOLD = 0.5, in thousandths
VLM_CONFIDENCE_THRESHOLD == 500

----------------------------------------------------------------------------
(* core/categorizer.py *)

\* the dict keeps insertion order; "e_acute" and "u_uml" stand for the
\* single characters U+00E9 and U+00FC
KEYWORD_CATEGORIES ==
  <<
    [category |-> "groceries", keywords |-> <<
        <<"r","e","w","e">>,
        <<"l","i","d","l">>,
        <<"a","l","d","i">>,
        <<"e","d","e","k","a">>,
        <<"p","e","n","n","y">>,
        <<"n","e","t","t","o">>,
        <<"k","a","u","f","l","a","n","d">>,
        <<"d","m">>,
        <<"r","o","s","s","m","a","n","n">>,
        <<"s","u","p","e","r","m","a","r","k","t">>,
        <<"l","e","b","e","n","s","m","i","t","t","e","l">>>>],
    [category |-> "restaurant", keywords |-> <<
        <<"r","e","s","t","a","u","r","a","n","t">>,
        <<"b","i","s","t","r","o">>,
        <<"c","a","f","e_acute">>,
        <<"c","a","f","e">>,
        <<"b","a","r">>,
        <<"p","i","z","z","a">>,
        <<"b","u","r","g","e","r">>,
        <<"s","u","s","h","i">>,
        <<"t","r","i","n","k","g","e","l","d">>,
        <<"t","i","p">>,
        <<"k","e","l","l","n","e","r">>>>],
    [category |-> "transport", keywords |-> <<
        <<"u","b","e","r">>,
        <<"b","o","l","t">>,
        <<"t","a","x","i">>,
        <<"d","b">>,
        <<"b","a","h","n">>,
        <<"b","v","g">>,
        <<"t","a","n","k","s","t","e","l","l","e">>,
        <<"s","h","e","l","l">>,
        <<"a","r","a","l">>,
        <<"e","s","s","o">>,
        <<"p","a","r","k","i","n","g">>,
        <<"p","a","r","k","h","a","u","s">>>>],
    [category |-> "office", keywords |-> <<
        <<"b","u_uml","r","o">>,
        <<"o","f","f","i","c","e">>,
        <<"s","t","a","p","l","e","s">>,
        <<"p","a","p","i","e","r">>,
        <<"d","r","u","c","k","e","r">>,
        <<"t","o","n","e","r">>>>],
    [category |-> "accommodation", keywords |-> <<
        <<"h","o","t","e","l">>,
        <<"h","o","s","t","e","l">>,
        <<"a","i","r","b","n","b">>,
        <<"b","o","o","k","i","n","g">>,
        <<"m","o","t","e","l">>,
        <<"u_uml","b","e","r","n","a","c","h","t","u","n","g">>,
        <<"z","i","m","m","e","r">>>>],
    [category |-> "entertainment", keywords |-> <<
        <<"k","i","n","o">>,
        <<"c","i","n","e","m","a">>,
        <<"t","h","e","a","t","e","r">>,
        <<"k","o","n","z","e","r","t">>,
        <<"s","p","o","t","i","f","y">>,
        <<"n","e","t","f","l","i","x">>,
        <<"m","u","s","e","u","m">>>>],
    [category |-> "utilities", keywords |-> <<
        <<"s","t","r","o","m">>,
        <<"g","a","s">>,
        <<"w","a","s","s","e","r">>,
        <<"i","n","t","e","r","n","e","t">>,
        <<"t","e","l","e","f","o","n">>,
        <<"v","o","d","a","f","o","n","e">>,
        <<"t","e","l","e","k","o","m">>,
        <<"o","2">>>>]
  >>

\* " ".join(parts)
RECURSIVE JoinSpace(_)
JoinSpace(parts) ==
    IF parts = <<>> THEN <<>>
    ELSE IF Len(parts) = 1 THEN parts[1]
    ELSE parts[1] \o <<" ">> \o JoinSpace(Tail(parts))

CombinedText(data) ==
    LET vendor_part == IF TruthySeq(data.vendor)
                       THEN <<Lower(data.vendor[1])>> ELSE <<>>
        item_parts == [i \in 1..Len(data.line_items) |->
                          Lower(data.line_items[i].description)]
    IN  JoinSpace(vendor_part \o item_parts)

CategoryMatches(k, combined) ==
    \E j \in 1..Len(KEYWORD_CATEGORIES[k].keywords) :
        Contains(combined, KEYWORD_CATEGORIES[k].keywords[j])

\* categorize returning the last category of the table that matches
categorize_LastMatch(data) ==
    LET combined == CombinedText(data)
        hits == {k \in 1..Len(KEYWORD_CATEGORIES) : CategoryMatches(k, combined)}
    IN  IF hits = {} THEN "other"
        ELSE KEYWORD_CATEGORIES[CHOOSE k \in hits : \A h \in hits : k >= h].category

categorize(data) ==
    LET combined == CombinedText(data)
        hits == {k \in 1..Len(KEYWORD_CATEGORIES) : CategoryMatches(k, combined)}
    IN  IF hits = {} THEN "other"
        ELSE KEYWORD_CATEGORIES[CHOOSE k \in hits : \A h \in hits : k <= h].category

----------------------------------------------------------------------------
(* core/pipeline.py: _merge_results *)

\* Python `a or b` on Optional[str]
OrSeq(a, b) == IF TruthySeq(a) THEN a ELSE b
\* Python `a or b` on Optional[float]
OrNum(a, b) == IF TruthyNum(a) THEN a ELSE b
\* Python `a or b` on Optional[date]: a date is always truthy
OrDate(a, b) == IF ~IsNone(a) THEN a ELSE b
\* Python `a or b` on list
OrList(a, b) == IF a # <<>> THEN a ELSE b

\* the merged ReceiptData is built without a category: it gets the default
_merge_results(vlm_data, ocr_data) ==
    [vendor |-> OrSeq(vlm_data.vendor, ocr_data.vendor),
     date |-> OrDate(vlm_data.date, ocr_data.date),
     total_amount |-> OrNum(vlm_data.total_amount, ocr_data.total_amount),
     currency |-> OrSeq(vlm_data.currency, ocr_data.currency),
     tax_amount |-> OrNum(vlm_data.tax_amount, ocr_data.tax_amount),
     tax_rate |-> OrNum(vlm_data.tax_rate, ocr_data.tax_rate),
     line_items |-> OrList(vlm_data.line_items, ocr_data.line_items),
     payment_method |-> OrSeq(vlm_data.payment_method, ocr_data.payment_method),
     receipt_number |-> OrSeq(vlm_data.receipt_number, ocr_data.receipt_number),
     category |-> "other"]

----------------------------------------------------------------------------
(* JSON values of a VLM reply: [t, v] with t the JSON type.  "absent"   *)
(* marks a key that the object does not have; "invalid" is content that *)
(* json.loads rejects.                                                  *)

JAbsent == [t |-> "absent", v |-> 0]
JNull == [t |-> "null", v |-> 0]
JInvalid == [t |-> "invalid", v |-> 0]
JNum(n) == [t |-> "num", v |-> n]
JStr(s) == [t |-> "str", v |-> s]
JList(l) == [t |-> "list", v |-> l]
JObj(o) == [t |-> "obj", v |-> o]

\* str.replace(",", ".")
ReplaceComma(s) == [i \in 1..Len(s) |-> IF s[i] = "," THEN "." ELSE s[i]]

\* str.strip() for blanks
RECURSIVE LStrip(_)
LStrip(s) == IF s # <<>> /\ s[1] = " " THEN LStrip(Tail(s)) ELSE s
RECURSIVE RStrip(_)
RStrip(s) ==
    IF s # <<>> /\ s[Len(s)] = " " THEN RStrip(SubSeq(s, 1, Len(s) - 1)) ELSE s
Strip(s) == RStrip(LStrip(s))

\* float(s) for plain decimal notation, in hundredths: an optional sign,
\* digits and at most one point with at least one digit overall; None
\* stands for ValueError.  Digits after the second decimal are cut off
\* (the amounts of the model have at most two).
ParseFloat(s) ==
    LET signed == s # <<>> /\ s[1] \in {"+", "-"}
        body == IF signed THEN Tail(s) ELSE s
        dots == {i \in 1..Len(body) : body[i] = "."}
        dot == IF dots = {} THEN Len(body) + 1 ELSE CHOOSE i \in dots : TRUE
        int_part == SubSeq(body, 1, dot - 1)
        frac_part == SubSeq(body, dot + 1, Len(body))
        frac2 == SubSeq(frac_part \o <<"0", "0">>, 1, 2)
        magnitude == 100 * DigitsVal(int_part) + DigitsVal(frac2)
    IN  IF /\ Cardinality(dots) <= 1
           /\ AllDigits(int_part) /\ AllDigits(frac_part)
           /\ Len(int_part) + Len(frac_part) >= 1
        THEN Some(IF signed /\ s[1] = "-" THEN 0 - magnitude ELSE magnitude)
        ELSE None

----------------------------------------------------------------------------
(* core/extractor_vlm.py *)

\* _parse_number without the replacement of the decimal comma
_parse_number_KeepsComma(value) ==
    IF value.t \in {"null", "absent"} THEN None
    ELSE IF value.t = "num" THEN Some(value.v)
    ELSE IF value.t = "str" THEN ParseFloat(Strip(value.v))
    ELSE None

\* VLMExtractor._parse_number
_parse_number(value) ==
    IF value.t \in {"null", "absent"} THEN None
    ELSE IF value.t = "num" THEN Some(value.v)
    ELSE IF value.t = "str" THEN ParseFloat(Strip(ReplaceComma(value.v)))
    ELSE None

Unknown == <<"U","n","k","n","o","w","n">>

\* LineItem(...) of one entry of line_items; None when the entry is
\* skipped: item.get fails on a non-object, pydantic rejects a description
\* that is not a str and the validator rejects a negative total
ParseLineItem(item) ==
    IF item.t # "obj" THEN None
    ELSE LET description == IF item.v.description.t = "absent"
                            THEN JStr(Unknown) ELSE item.v.description
             built == [description |-> description.v,
                       quantity |-> _parse_number(item.v.quantity),
                       unit_price |-> _parse_number(item.v.unit_price),
                       total |-> OrNum(_parse_number(item.v.total), Some(0))[1]]
         IN  IF description.t = "str" /\ LineItemValid(built)
             THEN Some(built) ELSE None

RECURSIVE ParseLineItems(_)
ParseLineItems(items) ==
    IF items = <<>> THEN <<>>
    ELSE ParseLineItem(items[1]) \o ParseLineItems(Tail(items))

\* a str | None field of ReceiptData: [ok, value]
StrField(j) ==
    IF j.t \in {"null", "absent"} THEN [ok |-> TRUE, value |-> None]
    ELSE IF j.t = "str" THEN [ok |-> TRUE, value |-> Some(j.v)]
    ELSE [ok |-> FALSE, value |-> None]

\* the currency field: max_length=3, then currency_uppercase
CurrencyField(j) ==
    LET f == StrField(j)
    IN  IF f.ok /\ ~IsNone(f.value)
        THEN IF Len(f.value[1]) <= 3
             THEN [ok |-> TRUE, value |-> Some(Upper(f.value[1]))]
             ELSE [ok |-> FALSE, value |-> None]
        ELSE f

\* the date field given a JSON value (numbers, which pydantic reads as
\* timestamps, are not among the replies of the model)
DateField(j) ==
    IF j.t \in {"null", "absent"} THEN [ok |-> TRUE, value |-> None]
    ELSE IF j.t = "str"
    THEN [ok |-> ~IsNone(ParseIsoDate(j.v)), value |-> ParseIsoDate(j.v)]
    ELSE [ok |-> FALSE, value |-> None]

\* _parse_vlm_response on the decoded JSON; None when it raises
_parse_vlm_response(raw) ==
    IF raw.t # "obj" THEN None
    ELSE LET o == raw.v
             items == o.line_items
             iterable == items.t \in {"absent", "list", "str", "obj"}
             line_items == IF items.t = "list" THEN ParseLineItems(items.v)
                           ELSE <<>>
             vendor == StrField(o.vendor)
             date == DateField(o.date)
             currency == CurrencyField(o.currency)
             payment_method == StrField(o.payment_method)
             receipt_number == StrField(o.receipt_number)
         IN  IF iterable /\ vendor.ok /\ date.ok /\ currency.ok
                /\ payment_method.ok /\ receipt_number.ok
             THEN Some([vendor |-> vendor.value,
                        date |-> date.value,
                        total_amount |-> _parse_number(o.total_amount),
                        currency |-> currency.value,
                        tax_amount |-> _parse_number(o.tax_amount),
                        tax_rate |-> _parse_number(o.tax_rate),
                        line_items |-> line_items,
                        payment_method |-> payment_method.value,
                        receipt_number |-> receipt_number.value,
                        category |-> "other"])
             ELSE None

\* the parse with no data replaced by an empty ReceiptData
ParseContent_EmptyForNone(raw_content) ==
    IF IsNone(_parse_vlm_response(raw_content)) \/ raw_content.t = "invalid"
    THEN Some(EmptyReceipt) ELSE _parse_vlm_response(raw_content)

\* the parse of VLMExtractor.extract: json.loads, then _parse_vlm_response;
\* every exception gives None
ParseContent(raw_content) ==
    IF raw_content.t = "invalid" THEN None ELSE _parse_vlm_response(raw_content)

----------------------------------------------------------------------------
(* core/extractor_ocr.py.  A recognized text is given by what the        *)
(* extractor's searches find in it: first_line is the first non-blank    *)
(* line stripped, total_str / tax_str / date_str the group captured by   *)
(* the first matching pattern of each list, marks the currency signs or  *)
(* codes that occur.                                                     *)

IsSep(c) == c \in {".", "/"}

\* str(year) for a four-digit year
YearStr(n) ==
    <<Digits[((n \div 1000) % 10) + 1], Digits[((n \div 100) % 10) + 1],
      Digits[((n \div 10) % 10) + 1], Digits[(n % 10) + 1]>>

\* _normalize_date putting every two-digit year in the 2000s
_normalize_date_NoPivot(date_str) ==
    IF /\ Len(date_str) >= 10
       /\ AllDigits(SubSeq(date_str, 1, 2)) /\ IsSep(date_str[3])
       /\ AllDigits(SubSeq(date_str, 4, 5)) /\ IsSep(date_str[6])
       /\ AllDigits(SubSeq(date_str, 7, 10))
    THEN Some(SubSeq(date_str, 7, 10) \o <<"-">> \o SubSeq(date_str, 4, 5)
              \o <<"-">> \o SubSeq(date_str, 1, 2))
    ELSE IF /\ Len(date_str) >= 10
            /\ AllDigits(SubSeq(date_str, 1, 4)) /\ date_str[5] = "-"
            /\ AllDigits(SubSeq(date_str, 6, 7)) /\ date_str[8] = "-"
            /\ AllDigits(SubSeq(date_str, 9, 10))
    THEN Some(date_str)
    ELSE IF /\ Len(date_str) >= 8
            /\ AllDigits(SubSeq(date_str, 1, 2)) /\ IsSep(date_str[3])
            /\ AllDigits(SubSeq(date_str, 4, 5)) /\ IsSep(date_str[6])
            /\ AllDigits(SubSeq(date_str, 7, 8))
    THEN Some(YearStr(2000 + DigitsVal(SubSeq(date_str, 7, 8))) \o <<"-">>
              \o SubSeq(date_str, 4, 5) \o <<"-">> \o SubSeq(date_str, 1, 2))
    ELSE None

_normalize_date(date_str) ==
    IF /\ Len(date_str) >= 10
       /\ AllDigits(SubSeq(date_str, 1, 2)) /\ IsSep(date_str[3])
       /\ AllDigits(SubSeq(date_str, 4, 5)) /\ IsSep(date_str[6])
       /\ AllDigits(SubSeq(date_str, 7, 10))
    THEN Some(SubSeq(date_str, 7, 10) \o <<"-">> \o SubSeq(date_str, 4, 5)
              \o <<"-">> \o SubSeq(date_str, 1, 2))
    ELSE IF /\ Len(date_str) >= 10
            /\ AllDigits(SubSeq(date_str, 1, 4)) /\ date_str[5] = "-"
            /\ AllDigits(SubSeq(date_str, 6, 7)) /\ date_str[8] = "-"
            /\ AllDigits(SubSeq(date_str, 9, 10))
    THEN Some(date_str)
    ELSE IF /\ Len(date_str) >= 8
            /\ AllDigits(SubSeq(date_str, 1, 2)) /\ IsSep(date_str[3])
            /\ AllDigits(SubSeq(date_str, 4, 5)) /\ IsSep(date_str[6])
            /\ AllDigits(SubSeq(date_str, 7, 8))
    THEN LET yy == DigitsVal(SubSeq(date_str, 7, 8))
             year == IF yy < 50 THEN 2000 + yy ELSE 1900 + yy
         IN  Some(YearStr(year) \o <<"-">> \o SubSeq(date_str, 4, 5)
                  \o <<"-">> \o SubSeq(date_str, 1, 2))
    ELSE None

_extract_date(text) ==
    IF IsNone(text.date_str) THEN None ELSE _normalize_date(text.date_str[1])

\* _extract_amount on the captured group
_extract_amount(amount_str) ==
    IF IsNone(amount_str) THEN None ELSE ParseFloat(ReplaceComma(amount_str[1]))

_detect_currency(text) ==
    IF "EUR" \in text.marks THEN Some(<<"E","U","R">>)
    ELSE IF "USD" \in text.marks THEN Some(<<"U","S","D">>)
    ELSE IF "GBP" \in text.marks THEN Some(<<"G","B","P">>)
    ELSE None

\* _parse_ocr_text: ReceiptData(...) validates the date string, so the
\* call raises pydantic's ValidationError when it names no calendar date
_parse_ocr_text(text) ==
    LET receipt_date == _extract_date(text)
        date == IF IsNone(receipt_date) THEN None
                ELSE ParseIsoDate(receipt_date[1])
    IN  [raised |-> ~IsNone(receipt_date) /\ IsNone(date),
         data |-> [vendor |-> text.first_line,
                   date |-> date,
                   total_amount |-> _extract_amount(text.total_str),
                   currency |-> _detect_currency(text),
                   tax_amount |-> _extract_amount(text.tax_str),
                   tax_rate |-> None,
                   line_items |-> <<>>,
                   payment_method |-> None,
                   receipt_number |-> None,
                   category |-> "other"]]

----------------------------------------------------------------------------
(* Inputs of the model *)

\* the supported types with plain text among them
SUPPORTED_TYPES_WithText ==
    {"image/jpeg", "image/png", "application/pdf", "text/plain"}

\* ImagePreprocessor.SUPPORTED_TYPES
SUPPORTED_TYPES == {"image/jpeg", "image/png", "application/pdf"}


NoItemFields ==
    [description |-> JAbsent, quantity |-> JAbsent,
     unit_price |-> JAbsent, total |-> JAbsent]

NoReplyFields ==
    [vendor |-> JAbsent, date |-> JAbsent, total_amount |-> JAbsent,
     currency |-> JAbsent, tax_amount |-> JAbsent, tax_rate |-> JAbsent,
     line_items |-> JAbsent, payment_method |-> JAbsent,
     receipt_number |-> JAbsent]

\* a complete receipt: 47.83 EUR, 19 % tax, two items summing to the total
ReplyComplete ==
    JObj([NoReplyFields EXCEPT
        !.vendor = JStr(<<"R","E","W","E">>),
        !.date = JStr(<<"2","0","2","6","-","1","0","-","3","0">>),
        !.total_amount = JNum(4783),
        !.currency = JStr(<<"e","u","r">>),
        !.tax_amount = JStr(<<"7",",","6","3">>),
        !.tax_rate = JNum(19),
        !.line_items = JList(<<
            JObj([NoItemFields EXCEPT !.description = JStr(<<"M","i","l","k">>),
                                      !.quantity = JNum(200),
                                      !.total = JNum(4183)]),
            JObj([NoItemFields EXCEPT !.description = JStr(<<"M","i","l","k">>),
                                      !.total = JNum(0 - 100)]),
            JObj([NoItemFields EXCEPT !.total = JStr(<<"6",".","0","0">>)])>>)])

\* a reply that names little: a zero total and a zero tax rate only
ReplySparse ==
    JObj([NoReplyFields EXCEPT !.total_amount = JNum(0),
                               !.tax_rate = JNum(0),
                               !.vendor = JStr(<<>>)])

\* a reply naming only the vendor
ReplyVendorOnly ==
    JObj([NoReplyFields EXCEPT !.vendor = JStr(<<"U","b","e","r">>)])

----------------------------------------------------------------------------
(* Replies that exercise the parse of the VLM extractor and the validator *)

Milk == <<"M","i","l","k">>
Tea == <<"T","e","a">>

\* a reply object with every field of the schema given
GivenFields ==
    [vendor |-> JStr(<<"R","E","W","E">>),
     date |-> JStr(<<"2","0","2","6","-","1","0","-","3","0">>),
     total_amount |-> JNum(4783),
     currency |-> JStr(<<"E","U","R">>),
     tax_amount |-> JNum(763),
     tax_rate |-> JNum(19),
     line_items |-> JList(<<JObj([NoItemFields EXCEPT
                                     !.description = JStr(Milk),
                                     !.total = JNum(4783)])>>),
     payment_method |-> JStr(<<"c","a","r","d">>),
     receipt_number |-> JStr(<<"4","7","1","1">>)]

\* GivenFields with the fields of `missing` left out (how = JAbsent) or
\* sent as null (how = JNull)
WithMissing(missing, how) ==
    LET pick(f) == IF f \in missing THEN how ELSE GivenFields[f]
    IN  JObj([vendor |-> pick("vendor"), date |-> pick("date"),
              total_amount |-> pick("total_amount"),
              currency |-> pick("currency"),
              tax_amount |-> pick("tax_amount"),
              tax_rate |-> pick("tax_rate"),
              line_items |-> pick("line_items"),
              payment_method |-> pick("payment_method"),
              receipt_number |-> pick("receipt_number")])

RepliesWithMissing ==
    {WithMissing(missing, how) :
        missing \in SUBSET DataFields, how \in {JAbsent, JNull}}

\* entries a line_items list can hold
ItemGoodA ==
    JObj([NoItemFields EXCEPT !.description = JStr(Milk), !.total = JNum(4183)])
ItemGoodB ==
    JObj([NoItemFields EXCEPT !.description = JStr(Tea),
                              !.quantity = JNum(200),
                              !.total = JStr(<<"6",".","0","0">>)])
ItemNotObject == JStr(<<"x">>)
ItemNegativeTotal ==
    JObj([NoItemFields EXCEPT !.description = JStr(Milk),
                              !.total = JNum(0 - 100)])
ItemNoDescription == JObj([NoItemFields EXCEPT !.total = JNum(100)])
ItemNumberDescription ==
    JObj([NoItemFields EXCEPT !.description = JNum(7), !.total = JNum(100)])
ItemBadTotal ==
    JObj([NoItemFields EXCEPT !.description = JStr(Milk),
                              !.total = JStr(<<"a","b","c">>)])
\* an item that costs nothing
ItemFree == JObj([NoItemFields EXCEPT !.description = JStr(Tea), !.total = JNum(0)])

ItemKinds ==
    {ItemGoodA, ItemGoodB, ItemNotObject, ItemNegativeTotal,
     ItemNoDescription, ItemNumberDescription, ItemBadTotal}

\* longest line_items list of the replies
MaxItems == 2

ItemLists == UNION {[1..n -> ItemKinds] : n \in 0..MaxItems}

RepliesWithItems ==
    {JObj([NoReplyFields EXCEPT !.vendor = JStr(<<"R","E","W","E">>),
                                !.line_items = JList(items)]) :
        items \in ItemLists}

\* characters of the strings sent in a numeric field
NumberChars == {"4", ",", ".", " ", "x", "-"}
\* longest such string drawn from NumberChars
MaxNumberLen == 3

NumberStrings ==
    UNION {[1..n -> NumberChars] : n \in 0..MaxNumberLen}
    \cup {<<"4","7",",","8","3">>, <<" ","4","7",",","8","3"," ">>,
          <<"4","7",".","8","3">>, <<"1",".","2","3","4",",","5","6">>,
          <<"4","7",",","8","3"," ","E","U","R">>}

\* values of a numeric field
NumberValues ==
    {JNull, JAbsent, JNum(4783), JNum(0), JNum(0 - 500)}
    \cup {JStr(str) : str \in NumberStrings}

RepliesWithNumber ==
    {JObj([NoReplyFields EXCEPT !.vendor = JStr(<<"R","E","W","E">>),
                                !.total_amount = value,
                                !.tax_amount = value]) :
        value \in NumberValues}

\* replies whose fields reach every branch of the validator's scores
RepliesForScores ==
    {JObj([NoReplyFields EXCEPT !.vendor = vendor, !.date = date,
                                !.total_amount = total,
                                !.tax_amount = tax_amount,
                                !.tax_rate = tax_rate,
                                !.line_items = items]) :
        vendor \in {JAbsent, JStr(<<"X">>), JStr(<<"R","E","W","E">>)},
        date \in {JAbsent,
                  JStr(<<"2","0","2","6","-","1","0","-","3","0">>),
                  JStr(<<"2","0","2","7","-","0","3","-","0","1">>),
                  JStr(<<"2","0","2","0","-","0","1","-","0","1">>)},
        total \in {JAbsent, JNum(0 - 500), JNum(0), JNum(4783), JNum(20000000)},
        tax_amount \in {JAbsent, JNum(0), JNum(763)},
        tax_rate \in {JAbsent, JNum(19), JNum(10), JNum(35)},
        items \in {JAbsent, JList(<<ItemGoodA>>), JList(<<ItemGoodB>>),
                   JList(<<ItemFree>>)}}

ItemTaxi ==
    JObj([NoItemFields EXCEPT !.description = JStr(<<"T","a","x","i">>),
                              !.total = JNum(1250)])
ItemKino ==
    JObj([NoItemFields EXCEPT !.description = JStr(<<"K","I","N","O">>),
                              !.total = JNum(900)])

\* replies whose vendor and item descriptions hold keywords of no, one or
\* several categories, in either case
RepliesForCategories ==
    {JObj([NoReplyFields EXCEPT !.vendor = vendor, !.line_items = items]) :
        vendor \in {JAbsent, JStr(<<"R","E","W","E">>),
                    JStr(<<"U","b","e","r"," ","B","a","r">>),
                    JStr(<<"H","O","T","E","L">>), JStr(<<"X","y">>)},
        items \in {JAbsent, JList(<<ItemGoodA>>), JList(<<ItemTaxi>>),
                   JList(<<ItemKino, ItemTaxi>>)}}

ReplyContents ==
    RepliesWithMissing \cup RepliesWithItems \cup RepliesWithNumber
    \cup RepliesForScores \cup RepliesForCategories \cup {JInvalid}

\* message contents a reply can carry
Contents == {ReplyComplete, ReplySparse, ReplyVendorOnly, JInvalid, JList(<<>>)}

\* the usage block of a reply (a missing block reads as 0 / 0)
Usages ==
    {[prompt_tokens |-> 0, completion_tokens |-> 0],
     [prompt_tokens |-> 200000, completion_tokens |-> 2000]}

\* bodies of a 2xx reply; has_choices is FALSE for a body without
\* choices[0].message.content
Bodies ==
    {[usage |-> u, has_choices |-> TRUE, content |-> c] :
        u \in Usages, c \in Contents}
    \cup {[usage |-> u, has_choices |-> FALSE, content |-> JNull] : u \in Usages}

\* what the HTTP exchange of one attempt can end in
HttpFailures == {"ConnectError", "TimeoutException", "HTTPStatusError", "JSONDecodeError"}
\* the retry predicate widened to every exception
RetriedFailures_Any ==
    {"ConnectError", "TimeoutException", "HTTPStatusError", "JSONDecodeError"}

\* retry_if_exception_type of extract_receipt
RetriedFailures == {"ConnectError", "TimeoutException", "HTTPStatusError"}
\* failures raised after raise_for_status has passed: response.json() on a
\* 2xx reply whose body is not JSON
StatusPassedFailures == {"JSONDecodeError"}

TextEmpty ==
    [first_line |-> None, total_str |-> None, date_str |-> None,
     tax_str |-> None, marks |-> {}]
TextReceipt ==
    [first_line |-> Some(<<"R","E","W","E"," ","M","a","r","k","t">>),
     total_str |-> Some(<<"4","7",",","8","3">>),
     date_str |-> Some(<<"0","7",".","0","2",".","2","0","2","6">>),
     tax_str |-> Some(<<"7",",","6","3">>),
     marks |-> {"EUR", "USD"}]
\* digits in date form that name no calendar date
TextBadDate ==
    [first_line |-> Some(<<"T","a","x","i">>),
     total_str |-> None,
     date_str |-> Some(<<"4","5",".","1","3",".","2","0","2","6">>),
     tax_str |-> None, marks |-> {}]

Texts == {TextEmpty, TextReceipt, TextBadDate}

\* what the three DATE_PATTERNS can capture from a text: two digits, a
\* separator, two digits, a separator and a year of four or two digits,
\* or year, month and day joined by "-"
DateStrings ==
    LET days == {<<"0","7">>, <<"3","1">>, <<"4","5">>}
        months == {<<"0","2">>, <<"1","2">>, <<"1","3">>}
        years == {<<"2","0","2","6">>, <<"1","9","9","9">>}
        short_years == {<<"0","0">>, <<"2","6">>, <<"4","9">>, <<"5","0">>,
                        <<"9","9">>}
        seps == {<<".">>, <<"/">>}
    IN  {d \o s1 \o m \o s2 \o y :
            d \in days, m \in months, y \in years \cup short_years,
            s1 \in seps, s2 \in seps}
        \cup {y \o <<"-">> \o m \o <<"-">> \o d :
                 y \in years, m \in months, d \in days}

\* recognized texts that differ in the captured date only
DateTexts ==
    {[TextEmpty EXCEPT !.first_line = Some(<<"K","i","o","s","k">>),
                       !.date_str = Some(str)] : str \in DateStrings}
    \cup {TextEmpty}

OverrideModel == "openai/gpt-4o"

\* the inputs a run draws from
AllInputs ==
    [content_types |-> {"image/jpeg", "text/plain"},
     decodes |-> BOOLEAN,
     force_ocr |-> BOOLEAN,
     model_overrides |-> {None, Some(OverrideModel)},
     failures |-> HttpFailures,
     bodies |-> Bodies,
     texts |-> Texts,
     store_ok |-> BOOLEAN]

\* cost_tracker totals before the run: [daily, earlier_days]
PriorSpends ==
    {[daily |-> 0, earlier_days |-> 0],
     [daily |-> 79000000, earlier_days |-> 0],
     [daily |-> 85000000, earlier_days |-> 0],
     [daily |-> 94000000, earlier_days |-> 0],
     [daily |-> 96000000, earlier_days |-> 0],
     [daily |-> 0, earlier_days |-> 500000000],
     [daily |-> 92000000, earlier_days |-> 404000000]}

----------------------------------------------------------------------------
(* State of one invocation of process before it is called *)

IdleRequest == [content_type |-> "", force_ocr |-> FALSE, model_override |-> None]

\* decision is what select_model last came to: "pending" before it has,
\* "monthly" or "daily" for a refusal of that scope, "selected" for a model
IdleVlm == [attempt |-> 0, daily_spend |-> 0, monthly_spend |-> 0,
            decision |-> "pending", model |-> None,
            response |-> None, cost |-> 0]

\* lines 65-69 of process: the locals before the VLM step
IdleLocal ==
    [receipt_data |-> None, extraction_method |-> "vlm", model_used |-> None,
     cost_usd |-> 0, raw_response |-> None, metadata |-> None,
     vlm_parsed |-> FALSE, confidence |-> 0, result |-> None]

\* kind: "none", "returned" (with the result) or "raised" (with the error
\* and the step it came from)
IdleOutcome == [kind |-> "none", result |-> None, error |-> "", origin |-> ""]

\* last_failure is what the latest HTTP exchange raised ("none" when it
\* raised nothing), success_statuses counts the exchanges that passed
\* raise_for_status, field_scores is the third value of the latest
\* validate_and_score call, validations lists the calls of
\* validate_and_score in order (arguments and returned values), ocr_text
\* is the text Tesseract recognized and ocr_date what _extract_date
\* returned to _parse_ocr_text for it, selected lists the models
\* select_model returned to the attempts so far
IdleTrace ==
    [vlm |-> "not_called", refusal |-> "none", budget_checks |-> 0,
     http_requests |-> 0, last_failure |-> "none", success_statuses |-> 0,
     ledger_rows |-> 0, ocr_calls |-> 0,
     primary_data |-> None, primary_confidence |-> 0,
     field_scores |-> None, validations |-> <<>>, selected |-> <<>>,
     ocr_data |-> None, ocr_text |-> None, ocr_date |-> None,
     store_failed |-> FALSE]

Init ==
    /\ pc = [r \in Requests |-> "idle"]
    /\ request = [r \in Requests |-> IdleRequest]
    /\ vlm = [r \in Requests |-> IdleVlm]
    /\ local = [r \in Requests |-> IdleLocal]
    /\ outcome = [r \in Requests |-> IdleOutcome]
    /\ trace = [r \in Requests |-> IdleTrace]
    /\ records = [r \in Requests |-> None]
    /\ ledger = <<>>
    /\ prior \in PriorSpends

InFlight == {q \in Requests : pc[q] \notin {"idle", "returned", "raised"}}

\* Python truthiness of model_override (a str or None)
HasOverride(r) == request[r].model_override # None /\ request[r].model_override[1] # ""

\* every attempt sent through select_model
AttemptEntry_AlwaysGated(r) == "get_daily"

\* select_model awaited by the first attempt only
AttemptEntry_GateOnce(r) ==
    IF HasOverride(r) \/ vlm[r].attempt > 0 THEN "post" ELSE "get_daily"

\* where an attempt of extract_receipt starts: `model_override or await
\* self.select_model(db)`
AttemptEntry(r) == IF HasOverride(r) THEN "post" ELSE "get_daily"

----------------------------------------------------------------------------
(* ExtractionPipeline.process *)

\* a caller invokes process(file_bytes, content_type, db, prefix, request)
Start(r, in) ==
    /\ pc[r] = "idle"
    /\ Len(ledger) + Cardinality(InFlight) < MaxLedger
    /\ \E ct \in in.content_types, f \in in.force_ocr, mo \in in.model_overrides :
         request' = [request EXCEPT ![r] =
                        [content_type |-> ct, force_ocr |-> f, model_override |-> mo]]
    /\ pc' = [pc EXCEPT ![r] = "preprocess"]
    /\ UNCHANGED <<vlm, local, outcome, trace, ledger, prior, records>>

\* Start when no other invocation is under way
StartAlone(r, in) ==
    /\ \A q \in Requests \ {r} : pc[q] = "idle"
    /\ Start(r, in)

\* the VLM step entered whatever force_ocr says
SkipsVlm_Never(r) == FALSE

\* the flag read from what the invocations in progress asked for, as if
\* the request were kept on the shared pipeline object
SkipsVlm_Shared(r) == \A q \in InFlight : request[q].force_ocr

\* line 72: the VLM step is skipped exactly when force_ocr is set
SkipsVlm(r) == request[r].force_ocr

\* the test entered only for data that is there or on request
NeedsOcr_NotForMissingData(receipt_data, confidence, force_ocr) ==
    \/ ~IsNone(receipt_data) /\ confidence < VLM_CONFIDENCE_THRESHOLD
    \/ force_ocr

\* the test with the confidence compared to 0.3
NeedsOcr_LowThreshold(receipt_data, confidence, force_ocr) ==
    \/ IsNone(receipt_data)
    \/ confidence < 300
    \/ force_ocr

\* the test without its confidence clause
NeedsOcr_IgnoresConfidence(receipt_data, confidence, force_ocr) ==
    \/ IsNone(receipt_data)
    \/ force_ocr

\* lines 99-103: the test that sends process into the OCR branch
NeedsOcr(receipt_data, confidence, force_ocr) ==
    \/ IsNone(receipt_data)
    \/ confidence < VLM_CONFIDENCE_THRESHOLD
    \/ force_ocr

\* the tag "ocr" whether or not primary data exists
MethodAfterOcr_AlwaysOcr(receipt_data) == "ocr"

\* lines 105-110: the method tag set in the OCR branch
MethodAfterOcr(receipt_data) == IF IsNone(receipt_data) THEN "ocr" ELSE "hybrid"

\* Step 1: preprocess raises ValueError for an unsupported type or an
\* undecodable file, and process lets it through; otherwise the locals of
\* lines 65-69 are set and the VLM step is entered unless force_ocr
Preprocess(r, in) ==
    /\ pc[r] = "preprocess"
    /\ \E decodes \in in.decodes :
         IF request[r].content_type \notin SUPPORTED_TYPES \/ ~decodes
         THEN /\ pc' = [pc EXCEPT ![r] = "raised"]
              /\ outcome' = [outcome EXCEPT ![r] =
                                [kind |-> "raised", result |-> None,
                                 error |-> "ValueError",
                                 origin |-> "preprocess"]]
              /\ UNCHANGED <<vlm, local, trace>>
         ELSE /\ local' = [local EXCEPT ![r] = IdleLocal]
              /\ IF SkipsVlm(r)
                 THEN /\ pc' = [pc EXCEPT ![r] = "validate"]
                      /\ UNCHANGED <<vlm, trace>>
                 ELSE /\ pc' = [pc EXCEPT ![r] = AttemptEntry(r)]
                      /\ vlm' = [vlm EXCEPT ![r] =
                                    [IdleVlm EXCEPT !.attempt = 1,
                                                    !.model = request[r].model_override]]
                      /\ trace' = [trace EXCEPT ![r].vlm = "called"]
              /\ UNCHANGED outcome
    /\ UNCHANGED <<request, ledger, prior, records>>

\* a reply without choices treated as a retried failure: the attempt
\* starts again although its cost is recorded
VlmRaised_RetriesAfterRecord(r, how, scope) ==
    IF pc[r] = "parse" /\ trace[r].http_requests < MaxAttempts
    THEN /\ local' = local
         /\ pc' = [pc EXCEPT ![r] = IF HasOverride(r) THEN "post" ELSE "get_daily"]
         /\ trace' = [trace EXCEPT ![r].vlm = how, ![r].refusal = scope]
    ELSE /\ local' = [local EXCEPT ![r].extraction_method = "ocr"]
         /\ pc' = [pc EXCEPT ![r] = "validate"]
         /\ trace' = [trace EXCEPT ![r].vlm = how, ![r].refusal = scope]

\* the except clauses reporting the model and cost the attempt had
VlmRaised_ReportsCall(r, how, scope) ==
    /\ local' = [local EXCEPT ![r].extraction_method = "ocr",
                              ![r].model_used = vlm[r].model,
                              ![r].cost_usd = vlm[r].cost]
    /\ pc' = [pc EXCEPT ![r] = "validate"]
    /\ trace' = [trace EXCEPT ![r].vlm = how, ![r].refusal = scope]

\* the except clauses of lines 82-87: whatever the VLM extractor raises,
\* only the method tag changes
VlmRaised(r, how, scope) ==
    /\ local' = [local EXCEPT ![r].extraction_method = "ocr"]
    /\ pc' = [pc EXCEPT ![r] = "validate"]
    /\ trace' = [trace EXCEPT ![r].vlm = how, ![r].refusal = scope]

\* select_model, first await: get_daily_spend
GetDailySpend(r) ==
    /\ pc[r] = "get_daily"
    /\ vlm' = [vlm EXCEPT ![r].daily_spend = get_daily_spend,
                          ![r].decision = "pending"]
    /\ trace' = [trace EXCEPT ![r].budget_checks = @ + 1]
    /\ pc' = [pc EXCEPT ![r] = "get_monthly"]
    /\ UNCHANGED <<request, local, outcome, ledger, prior, records>>

\* select_model, second await: get_monthly_spend, then the decision
GetMonthlySpend(r) ==
    /\ pc[r] = "get_monthly"
    /\ LET decision == select_model(vlm[r].daily_spend, get_monthly_spend)
       IN  IF decision.refused
           THEN /\ VlmRaised(r, "budget_refused", decision.scope)
                /\ vlm' = [vlm EXCEPT ![r].monthly_spend = get_monthly_spend,
                                      ![r].decision = decision.scope]
           ELSE /\ vlm' = [vlm EXCEPT ![r].monthly_spend = get_monthly_spend,
                                      ![r].decision = "selected",
                                      ![r].model = decision.model]
                /\ pc' = [pc EXCEPT ![r] = "post"]
                /\ trace' = [trace EXCEPT
                       ![r].selected = Append(@, decision.model[1])]
                /\ UNCHANGED local
    /\ UNCHANGED <<request, outcome, ledger, prior, records>>

\* the step that follows a decoded 2xx reply with the content read first
AfterReply_ContentFirst == "parse"

\* lines 207-214: once the reply is decoded and its cost estimated,
\* record_cost is awaited; the content is read only after it
AfterReply == "record_cost"

\* extract_receipt: the POST of one attempt.  A retried failure starts the
\* whole function again while attempts remain (tenacity then raises
\* RetryError); any other failure is raised at once; a 2xx reply is read
\* and its cost estimated.
Post(r, in) ==
    /\ pc[r] = "post"
    /\ \/ \E failure \in in.failures :
            LET passed == IF failure \in StatusPassedFailures THEN 1 ELSE 0
            IN  IF failure \in RetriedFailures /\ vlm[r].attempt < MaxAttempts
                THEN /\ vlm' = [vlm EXCEPT ![r].attempt = @ + 1]
                     /\ pc' = [pc EXCEPT ![r] = AttemptEntry(r)]
                     /\ trace' = [trace EXCEPT
                            ![r].http_requests = @ + 1,
                            ![r].last_failure = failure,
                            ![r].success_statuses = @ + passed]
                     /\ UNCHANGED local
                ELSE /\ local' = [local EXCEPT ![r].extraction_method = "ocr"]
                     /\ pc' = [pc EXCEPT ![r] = "validate"]
                     /\ trace' = [trace EXCEPT
                            ![r].http_requests = @ + 1,
                            ![r].last_failure = failure,
                            ![r].success_statuses = @ + passed,
                            ![r].vlm = IF failure \in RetriedFailures
                                       THEN "retry_exhausted" ELSE "error"]
                     /\ UNCHANGED vlm
       \/ \E body \in in.bodies :
            /\ vlm' = [vlm EXCEPT
                   ![r].response = Some(body),
                   ![r].cost = estimate_cost(vlm[r].model[1],
                                             body.usage.prompt_tokens,
                                             body.usage.completion_tokens)]
            /\ pc' = [pc EXCEPT ![r] = AfterReply]
            /\ trace' = [trace EXCEPT ![r].http_requests = @ + 1,
                                      ![r].last_failure = "none",
                                      ![r].success_statuses = @ + 1]
            /\ UNCHANGED local
    /\ UNCHANGED <<request, outcome, ledger, prior, records>>

\* record_cost: one cost_tracker row, committed
RecordCost(r) ==
    /\ pc[r] = "record_cost"
    /\ ledger' = Append(ledger,
                        [model |-> vlm[r].model[1],
                         input_tokens |-> vlm[r].response[1].usage.prompt_tokens,
                         output_tokens |-> vlm[r].response[1].usage.completion_tokens,
                         cost_usd |-> vlm[r].cost])
    /\ trace' = [trace EXCEPT ![r].ledger_rows = @ + 1]
    /\ pc' = [pc EXCEPT ![r] = "parse"]
    /\ UNCHANGED <<request, vlm, local, outcome, prior, records>>

\* the rest of extract_receipt (reading choices[0].message.content raises
\* for a body without it), the parse of VLMExtractor.extract and lines
\* 79-81 of process
ParseReply(r) ==
    /\ pc[r] = "parse"
    /\ LET body == vlm[r].response[1]
       IN  IF ~body.has_choices
           THEN VlmRaised(r, "error", "none")
           ELSE LET data == ParseContent(body.content)
                    metadata == [model |-> vlm[r].model[1],
                                 input_tokens |-> body.usage.prompt_tokens,
                                 output_tokens |-> body.usage.completion_tokens,
                                 cost_usd |-> vlm[r].cost,
                                 raw_response |-> body.content]
                IN  /\ local' = [local EXCEPT
                           ![r].receipt_data = data,
                           ![r].metadata = Some(metadata),
                           ![r].model_used = Some(metadata.model),
                           ![r].cost_usd = metadata.cost_usd,
                           ![r].raw_response = Some(metadata.raw_response)]
                    /\ trace' = [trace EXCEPT
                           ![r].vlm = IF IsNone(data) THEN "no_data" ELSE "data"]
                    /\ pc' = [pc EXCEPT ![r] = "validate"]
    /\ UNCHANGED <<request, vlm, outcome, ledger, prior, records>>

\* one call of validate_and_score as the trace keeps it
Validation(data, vlm_parsed_cleanly, returned) ==
    [data |-> data, vlm_parsed_cleanly |-> vlm_parsed_cleanly,
     returned |-> returned]

\* Step 3 and the test of step 4: the three returned values are assigned
\* to receipt_data, confidence and field_scores
Validate(r) ==
    /\ pc[r] = "validate"
    /\ LET given == local[r].receipt_data
           returned == validate_and_score(given[1], TRUE)
           receipt_data == IF ~IsNone(given) THEN Some(returned.data) ELSE None
           confidence == IF ~IsNone(given) THEN returned.confidence ELSE 0
       IN  /\ local' = [local EXCEPT ![r].vlm_parsed = ~IsNone(given),
                                     ![r].receipt_data = receipt_data,
                                     ![r].confidence = confidence]
           /\ trace' = [trace EXCEPT
                  ![r].primary_data = receipt_data,
                  ![r].primary_confidence = confidence,
                  ![r].field_scores =
                      IF ~IsNone(given) THEN Some(returned.field_scores)
                      ELSE None,
                  ![r].validations =
                      IF ~IsNone(given)
                      THEN Append(@, Validation(given[1], TRUE, returned))
                      ELSE @]
           /\ pc' = [pc EXCEPT ![r] =
                        IF NeedsOcr(receipt_data, confidence, request[r].force_ocr)
                        THEN "ocr" ELSE "categorize"]
    /\ UNCHANGED <<request, vlm, outcome, ledger, prior, records>>

\* Step 4: ocr_extractor.extract is not guarded, so what it raises leaves
\* process; otherwise its data is taken or merged and scored again
OcrFallback(r, in) ==
    /\ pc[r] = "ocr"
    /\ \E text \in in.texts :
         LET ocr == _parse_ocr_text(text)
             given == IF IsNone(local[r].receipt_data) THEN ocr.data
                      ELSE _merge_results(local[r].receipt_data[1], ocr.data)
             returned == validate_and_score(given, local[r].vlm_parsed)
         IN  IF ocr.raised
             THEN /\ pc' = [pc EXCEPT ![r] = "raised"]
                  /\ outcome' = [outcome EXCEPT ![r] =
                                    [kind |-> "raised", result |-> None,
                                     error |-> "ValidationError",
                                     origin |-> "ocr_extractor"]]
                  /\ trace' = [trace EXCEPT ![r].ocr_calls = @ + 1,
                                            ![r].ocr_text = Some(text),
                                            ![r].ocr_date = _extract_date(text)]
                  /\ UNCHANGED local
             ELSE /\ local' = [local EXCEPT
                         ![r].receipt_data = Some(returned.data),
                         ![r].extraction_method =
                             MethodAfterOcr(local[r].receipt_data),
                         ![r].confidence = returned.confidence]
                  /\ trace' = [trace EXCEPT
                         ![r].ocr_calls = @ + 1,
                         ![r].ocr_data = Some(ocr.data),
                         ![r].ocr_text = Some(text),
                         ![r].ocr_date = _extract_date(text),
                         ![r].field_scores = Some(returned.field_scores),
                         ![r].validations =
                             Append(@, Validation(given, local[r].vlm_parsed,
                                                  returned))]
                  /\ pc' = [pc EXCEPT ![r] = "categorize"]
                  /\ UNCHANGED outcome
    /\ UNCHANGED <<request, vlm, ledger, prior, records>>

\* the status without its middle value
StatusOf_NoPartial(confidence) ==
    IF confidence >= 500 THEN "success" ELSE "failed"

\* line 129
StatusOf(confidence) ==
    IF confidence >= 500 THEN "success"
    ELSE IF confidence > 0 THEN "partial" ELSE "failed"

\* Steps 5 and 6: the category, the empty record when no data survived,
\* and the ExtractionResult, whose confidence_score must lie in [0, 1]
Categorize(r) ==
    /\ pc[r] = "categorize"
    /\ LET receipt_data ==
               IF ~IsNone(local[r].receipt_data)
               THEN [local[r].receipt_data[1] EXCEPT
                        !.category = categorize(local[r].receipt_data[1])]
               ELSE EmptyReceipt
           result == [status |-> StatusOf(local[r].confidence),
                      data |-> receipt_data,
                      confidence_score |-> local[r].confidence,
                      extraction_method |-> local[r].extraction_method,
                      model_used |-> local[r].model_used,
                      cost_usd |-> local[r].cost_usd]
       IN  IF local[r].confidence >= 0 /\ local[r].confidence <= 1000
           THEN /\ local' = [local EXCEPT ![r].receipt_data = Some(receipt_data),
                                          ![r].result = Some(result)]
                /\ pc' = [pc EXCEPT ![r] = "store"]
                /\ UNCHANGED outcome
           ELSE /\ pc' = [pc EXCEPT ![r] = "raised"]
                /\ outcome' = [outcome EXCEPT ![r] =
                                  [kind |-> "raised", result |-> None,
                                   error |-> "ValidationError",
                                   origin |-> "build_result"]]
                /\ UNCHANGED local
    /\ UNCHANGED <<request, vlm, trace, ledger, prior, records>>

\* the outcome with the exception of _store_result left uncaught
AfterStore_Propagates(result, stored) ==
    IF stored
    THEN [kind |-> "returned", result |-> result, error |-> "", origin |-> ""]
    ELSE [kind |-> "raised", result |-> None, error |-> "Exception",
          origin |-> "store_result"]

\* lines 142-157: whatever _store_result raises is logged and dropped, and
\* the result built in step 6 is returned
AfterStore(result, stored) ==
    [kind |-> "returned", result |-> result, error |-> "", origin |-> ""]

\* Step 7: _store_result inside try/except, then the return
StoreResult(r, in) ==
    /\ pc[r] = "store"
    /\ \E stored \in in.store_ok :
         /\ records' = [records EXCEPT ![r] =
                           IF stored
                           THEN Some([result |-> local[r].result[1],
                                      raw_vlm_response |-> local[r].raw_response])
                           ELSE None]
         /\ trace' = [trace EXCEPT ![r].store_failed = ~stored]
         /\ outcome' = [outcome EXCEPT ![r] = AfterStore(local[r].result, stored)]
         /\ pc' = [pc EXCEPT ![r] = AfterStore(local[r].result, stored).kind]
    /\ UNCHANGED <<request, vlm, local, ledger, prior>>

\* the caller is done with the outcome; the slot serves a new invocation
Finish(r) ==
    /\ pc[r] \in {"returned", "raised"}
    /\ pc' = [pc EXCEPT ![r] = "idle"]
    /\ request' = [request EXCEPT ![r] = IdleRequest]
    /\ vlm' = [vlm EXCEPT ![r] = IdleVlm]
    /\ local' = [local EXCEPT ![r] = IdleLocal]
    /\ outcome' = [outcome EXCEPT ![r] = IdleOutcome]
    /\ trace' = [trace EXCEPT ![r] = IdleTrace]
    /\ records' = [records EXCEPT ![r] = None]
    /\ UNCHANGED <<ledger, prior>>

----------------------------------------------------------------------------
(* Specifications *)

\* invocations one at a time
Next ==
    \E r \in Requests :
        \/ StartAlone(r, AllInputs)
        \/ Preprocess(r, AllInputs)
        \/ GetDailySpend(r)
        \/ GetMonthlySpend(r)
        \/ Post(r, AllInputs)
        \/ RecordCost(r)
        \/ ParseReply(r)
        \/ Validate(r)
        \/ OcrFallback(r, AllInputs)
        \/ Categorize(r)
        \/ StoreResult(r, AllInputs)
        \/ Finish(r)

Spec == Init /\ [][Next]_vars

\* the inputs of the runs with overlapping invocations: supported files,
\* no model_override
OverlapInputs ==
    [content_types |-> {"image/jpeg"},
     decodes |-> {TRUE},
     force_ocr |-> BOOLEAN,
     model_overrides |-> {None},
     failures |-> {"ConnectError"},
     bodies |-> {[usage |-> [prompt_tokens |-> 200000, completion_tokens |-> 2000],
                  has_choices |-> TRUE, content |-> ReplyVendorOnly]},
     texts |-> {TextReceipt},
     store_ok |-> {TRUE}]

\* invocations overlapping freely: the pipeline object is shared by all
\* requests of the route and every await lets another one run
NextOverlap ==
    \E r \in Requests :
        \/ Start(r, OverlapInputs)
        \/ Preprocess(r, OverlapInputs)
        \/ GetDailySpend(r)
        \/ GetMonthlySpend(r)
        \/ Post(r, OverlapInputs)
        \/ RecordCost(r)
        \/ ParseReply(r)
        \/ Validate(r)
        \/ OcrFallback(r, OverlapInputs)
        \/ Categorize(r)
        \/ StoreResult(r, OverlapInputs)
        \/ Finish(r)

SpecOverlap == Init /\ [][NextOverlap]_vars

\* the inputs of the runs that go through the replies of ReplyContents:
\* supported files sent to the VLM, one usage block
ReplyInputs ==
    [content_types |-> {"image/jpeg"},
     decodes |-> {TRUE},
     force_ocr |-> {FALSE},
     model_overrides |-> {None},
     failures |-> {"JSONDecodeError"},
     bodies |-> {[usage |-> [prompt_tokens |-> 200000, completion_tokens |-> 2000],
                  has_choices |-> TRUE, content |-> c] : c \in ReplyContents},
     texts |-> {TextEmpty, TextReceipt},
     store_ok |-> {TRUE}]

InitReplies ==
    /\ Init
    /\ prior = [daily |-> 0, earlier_days |-> 0]

NextReplies ==
    \E r \in Requests :
        \/ StartAlone(r, ReplyInputs)
        \/ Preprocess(r, ReplyInputs)
        \/ GetDailySpend(r)
        \/ GetMonthlySpend(r)
        \/ Post(r, ReplyInputs)
        \/ RecordCost(r)
        \/ ParseReply(r)
        \/ Validate(r)
        \/ OcrFallback(r, ReplyInputs)
        \/ Categorize(r)
        \/ StoreResult(r, ReplyInputs)
        \/ Finish(r)

SpecReplies == InitReplies /\ [][NextReplies]_vars

\* the inputs of the runs that go through the OCR texts of DateTexts: the
\* VLM step is skipped or its reply is not JSON
DateInputs ==
    [content_types |-> {"image/jpeg"},
     decodes |-> {TRUE},
     force_ocr |-> BOOLEAN,
     model_overrides |-> {None},
     failures |-> {"JSONDecodeError"},
     bodies |-> {[usage |-> [prompt_tokens |-> 0, completion_tokens |-> 0],
                  has_choices |-> TRUE, content |-> JInvalid]},
     texts |-> DateTexts,
     store_ok |-> {TRUE}]

NextDates ==
    \E r \in Requests :
        \/ StartAlone(r, DateInputs)
        \/ Preprocess(r, DateInputs)
        \/ GetDailySpend(r)
        \/ GetMonthlySpend(r)
        \/ Post(r, DateInputs)
        \/ RecordCost(r)
        \/ ParseReply(r)
        \/ Validate(r)
        \/ OcrFallback(r, DateInputs)
        \/ Categorize(r)
        \/ StoreResult(r, DateInputs)
        \/ Finish(r)

SpecDates == InitReplies /\ [][NextDates]_vars

\* models a caller can name in model_override; the last is in no table
OverrideModels ==
    {"openai/gpt-4o-mini", "qwen/qwen2-vl-7b-instruct",
     "qwen/qwen2-vl-72b-instruct", "unknown/model"}

\* usage blocks of the priced runs
PricedUsages ==
    {[prompt_tokens |-> 1000000, completion_tokens |-> 1000000],
     [prompt_tokens |-> 1500, completion_tokens |-> 300],
     [prompt_tokens |-> 0, completion_tokens |-> 0]}

\* the inputs of the runs that price a call: every model a call can go
\* to, by override or by the budget tiers
PricingInputs ==
    [content_types |-> {"image/jpeg"},
     decodes |-> {TRUE},
     force_ocr |-> {FALSE},
     model_overrides |-> {None} \cup {Some(m) : m \in OverrideModels},
     failures |-> {"JSONDecodeError"},
     bodies |-> {[usage |-> u, has_choices |-> TRUE, content |-> ReplyVendorOnly] :
                    u \in PricedUsages},
     texts |-> {TextReceipt},
     store_ok |-> {TRUE}]

\* nothing spent yet, or enough today for the fallback tier
InitPricing ==
    /\ Init
    /\ prior \in {[daily |-> 0, earlier_days |-> 0],
                  [daily |-> 85000000, earlier_days |-> 0]}

NextPricing ==
    \E r \in Requests :
        \/ StartAlone(r, PricingInputs)
        \/ Preprocess(r, PricingInputs)
        \/ GetDailySpend(r)
        \/ GetMonthlySpend(r)
        \/ Post(r, PricingInputs)
        \/ RecordCost(r)
        \/ ParseReply(r)
        \/ Validate(r)
        \/ OcrFallback(r, PricingInputs)
        \/ Categorize(r)
        \/ StoreResult(r, PricingInputs)
        \/ Finish(r)

SpecPricing == InitPricing /\ [][NextPricing]_vars

\* overlapping invocations whose VLM call is answered or fails once for
\* good, starting from an empty ledger
SharedInputs ==
    [OverlapInputs EXCEPT !.failures = {"JSONDecodeError"}]

NextShared ==
    \E r \in Requests :
        \/ Start(r, SharedInputs)
        \/ Preprocess(r, SharedInputs)
        \/ GetDailySpend(r)
        \/ GetMonthlySpend(r)
        \/ Post(r, SharedInputs)
        \/ RecordCost(r)
        \/ ParseReply(r)
        \/ Validate(r)
        \/ OcrFallback(r, SharedInputs)
        \/ Categorize(r)
        \/ StoreResult(r, SharedInputs)
        \/ Finish(r)

SpecShared == InitReplies /\ [][NextShared]_vars

\* overlapping invocations, the first of which has its VLM call fail and
\* retried while the calls of the others are answered; today's spend is
\* less than the cost of one call below the fallback threshold or below
\* the refusal threshold
RetryInputs == [OverlapInputs EXCEPT !.force_ocr = {FALSE}]

AnsweredInputs == [RetryInputs EXCEPT !.failures = {}]

InitRetry ==
    /\ pc = [r \in Requests |-> "idle"]
    /\ request = [r \in Requests |-> IdleRequest]
    /\ vlm = [r \in Requests |-> IdleVlm]
    /\ local = [r \in Requests |-> IdleLocal]
    /\ outcome = [r \in Requests |-> IdleOutcome]
    /\ trace = [r \in Requests |-> IdleTrace]
    /\ records = [r \in Requests |-> None]
    /\ ledger = <<>>
    /\ prior \in {[daily |-> 60000000, earlier_days |-> 0],
                  [daily |-> 79000000, earlier_days |-> 0]}

NextRetry ==
    \E r \in Requests :
        \/ Start(r, RetryInputs)
        \/ Preprocess(r, RetryInputs)
        \/ GetDailySpend(r)
        \/ GetMonthlySpend(r)
        \/ Post(r, IF r = 1 THEN RetryInputs ELSE AnsweredInputs)
        \/ RecordCost(r)
        \/ ParseReply(r)
        \/ Validate(r)
        \/ OcrFallback(r, RetryInputs)
        \/ Categorize(r)
        \/ StoreResult(r, RetryInputs)
        \/ Finish(r)

SpecRetry == InitRetry /\ [][NextRetry]_vars

\* one request at a time, none with a model_override
SerialInputs == [AllInputs EXCEPT !.model_overrides = {None}]

NextSerial ==
    \E r \in Requests :
        \/ StartAlone(r, SerialInputs)
        \/ Preprocess(r, SerialInputs)
        \/ GetDailySpend(r)
        \/ GetMonthlySpend(r)
        \/ Post(r, SerialInputs)
        \/ RecordCost(r)
        \/ ParseReply(r)
        \/ Validate(r)
        \/ OcrFallback(r, SerialInputs)
        \/ Categorize(r)
        \/ StoreResult(r, SerialInputs)
        \/ Finish(r)

SpecSerial == Init /\ [][NextSerial]_vars

----------------------------------------------------------------------------
(* Properties *)

Done(r) == pc[r] \in {"returned", "raised"}
Returned(r) == pc[r] = "returned"
VlmRaisedKinds == {"budget_refused", "retry_exhausted", "error"}

SameFields(a, b) == \A f \in DataFields : a[f] = b[f]

\* C1: under any interleaving of invocations without model_override, the
\* recorded daily spend never exceeds the daily limit and the recorded
\* monthly spend never exceeds the monthly limit.
C1_SpendWithinLimits ==
    /\ get_daily_spend <= DailyLimit
    /\ get_monthly_spend <= MonthlyLimit

\* C2: once preprocessing has succeeded process never raises; the only
\* errors that reach the caller are those raised by preprocessing.
C2_OnlyPreprocessingRaises ==
    \A r \in Requests :
        outcome[r].kind = "raised" => outcome[r].origin = "preprocess"

NoFieldDetected(data) ==
    /\ \A f \in DataFields \ {"line_items"} : IsNone(data[f])
    /\ data.line_items = <<>>

\* C3: when the VLM extractor gives no data or raises and the OCR
\* extractor detects no field, the result has an empty ReceiptData,
\* confidence_score 0 and status "failed".
C3_TotalFailureIsFailed ==
    \A r \in Requests :
        ( /\ Returned(r)
          /\ trace[r].vlm \in VlmRaisedKinds \cup {"no_data"}
          /\ ~IsNone(trace[r].ocr_data)
          /\ NoFieldDetected(trace[r].ocr_data[1]) )
        => /\ outcome[r].result[1].data = EmptyReceipt
           /\ outcome[r].result[1].confidence_score = 0
           /\ outcome[r].result[1].status = "failed"

\* C4: select_model decides in this order, first match winning: monthly
\* spend at or over the monthly limit refuses with monthly scope whatever
\* the daily spend; else daily spend at or over 95 % of the daily limit
\* refuses with daily scope; else at or over 80 % gives the fallback
\* model; otherwise the default model.
C4_SelectModelOrder ==
    \A r \in Requests :
        vlm[r].decision # "pending" =>
            LET d == vlm[r].daily_spend
                m == vlm[r].monthly_spend
            IN  IF m >= MonthlyLimit THEN vlm[r].decision = "monthly"
                ELSE IF 20 * (d \div 1000) >= 19 * (DailyLimit \div 1000)
                THEN vlm[r].decision = "daily"
                ELSE IF 5 * (d \div 1000) >= 4 * (DailyLimit \div 1000)
                THEN vlm[r].decision = "selected"
                     /\ vlm[r].model = Some(FallbackModel)
                ELSE vlm[r].decision = "selected"
                     /\ vlm[r].model = Some(DefaultModel)

\* a monthly refusal while the daily spend is at or over 95 % as well
C4_Witness ==
    \E r \in Requests :
        /\ vlm[r].decision = "monthly"
        /\ vlm[r].daily_spend >= 95000000

\* C5: whenever the VLM extractor raises (budget refusal, retries
\* exhausted, any other exception) process still returns a result with
\* method "ocr", no model, cost 0 and the data of the OCR extractor alone,
\* the same for every kind of failure.
C5_VlmFailureGivesOcrResult ==
    \A r \in Requests :
        (Done(r) /\ trace[r].vlm \in VlmRaisedKinds) =>
            /\ outcome[r].kind = "returned"
            /\ outcome[r].result[1].extraction_method = "ocr"
            /\ outcome[r].result[1].model_used = None
            /\ outcome[r].result[1].cost_usd = 0
            /\ ~IsNone(trace[r].ocr_data)
            /\ SameFields(outcome[r].result[1].data, trace[r].ocr_data[1])

\* C6: with force_ocr the VLM extractor is never invoked (no budget
\* check, no HTTP request, no ledger row), the OCR extractor is invoked
\* exactly once, and the result has method "ocr", no model and cost 0,
\* whatever model_override is.
C6_ForceOcrSkipsVlm ==
    \A r \in Requests :
        request[r].force_ocr =>
            /\ trace[r].vlm = "not_called"
            /\ trace[r].budget_checks = 0
            /\ trace[r].http_requests = 0
            /\ trace[r].ledger_rows = 0
            /\ trace[r].ocr_calls <= 1
            /\ (Done(r) /\ outcome[r].origin # "preprocess")
                   => trace[r].ocr_calls = 1
            /\ Returned(r) =>
                   /\ outcome[r].result[1].extraction_method = "ocr"
                   /\ outcome[r].result[1].model_used = None
                   /\ outcome[r].result[1].cost_usd = 0

\* a forced-OCR invocation with a model_override has returned
C6_Witness ==
    \E r \in Requests :
        /\ Returned(r)
        /\ request[r].force_ocr
        /\ ~IsNone(request[r].model_override)
        /\ trace[r].ocr_calls = 1

PastOcrBranch(r) ==
    \/ pc[r] \in {"categorize", "store", "returned"}
    \/ pc[r] = "raised" /\ outcome[r].origin # "preprocess"

\* C7: within one invocation OCR runs if and only if the primary path
\* gave no data, or the confidence of the primary data is below 0.5, or
\* force_ocr is set; otherwise OCR is never invoked and the pipeline goes
\* straight to categorization.
C7_OcrRunsIffNeeded ==
    \A r \in Requests :
        /\ PastOcrBranch(r) =>
               trace[r].ocr_calls =
                   IF \/ IsNone(trace[r].primary_data)
                      \/ trace[r].primary_confidence < 500
                      \/ request[r].force_ocr
                   THEN 1 ELSE 0
        /\ ~PastOcrBranch(r) => trace[r].ocr_calls = 0

\* primary data of confidence at least 0.5: categorization without OCR
C7_Witness ==
    \E r \in Requests :
        /\ pc[r] = "categorize"
        /\ ~IsNone(trace[r].primary_data)
        /\ trace[r].primary_confidence >= 500
        /\ ~request[r].force_ocr
        /\ trace[r].ocr_calls = 0

\* C8: the extraction_method of a returned result names the path: "vlm"
\* exactly when primary data was produced and OCR did not run, "hybrid"
\* exactly when primary data was produced and OCR ran and was merged into
\* it, "ocr" exactly when there was no primary data and the OCR result is
\* the result.
C8_MethodNamesPath ==
    \A r \in Requests :
        Returned(r) =>
            LET method == outcome[r].result[1].extraction_method
                data == outcome[r].result[1].data
                primary == trace[r].primary_data
                ocr_ran == trace[r].ocr_calls = 1
            IN  /\ method \in {"vlm", "hybrid", "ocr"}
                /\ method = "vlm" <=> (~IsNone(primary) /\ ~ocr_ran)
                /\ method = "hybrid" <=> (~IsNone(primary) /\ ocr_ran)
                /\ method = "ocr" <=> IsNone(primary)
                /\ method = "vlm" => SameFields(data, primary[1])
                /\ method = "hybrid" =>
                       SameFields(data, _merge_results(primary[1],
                                                       trace[r].ocr_data[1]))
                /\ method = "ocr" =>
                       ocr_ran /\ SameFields(data, trace[r].ocr_data[1])

\* a returned result of method "hybrid"
C8_Witness ==
    \E r \in Requests :
        /\ Returned(r)
        /\ outcome[r].result[1].extraction_method = "hybrid"
        /\ ~IsNone(trace[r].primary_data)
        /\ trace[r].ocr_calls = 1

\* the field of the VLM data when it is not null, else that of the OCR data
Coalesce(a, b) == IF a # None THEN a ELSE b

\* C9: merge is a field-level coalesce: each merged field equals the VLM
\* field whenever that is present (non-null, a numeric zero included) and
\* the OCR field otherwise.
C9_MergeIsNullCoalesce ==
    \A r \in Requests :
        ( /\ pc[r] = "categorize"
          /\ ~IsNone(trace[r].primary_data)
          /\ ~IsNone(trace[r].ocr_data) ) =>
            LET merged == local[r].receipt_data[1]
                v == trace[r].primary_data[1]
                o == trace[r].ocr_data[1]
            IN  /\ \A f \in DataFields \ {"line_items"} :
                       merged[f] = Coalesce(v[f], o[f])
                /\ merged.line_items =
                       IF v.line_items # <<>> THEN v.line_items ELSE o.line_items

\* C10: the status of every returned result follows from its
\* confidence_score: at least 0.5 "success", between 0 and 0.5 "partial",
\* exactly 0 "failed"; there is no other status.
C10_StatusFromConfidence ==
    \A r \in Requests :
        Returned(r) =>
            LET c == outcome[r].result[1].confidence_score
                st == outcome[r].result[1].status
            IN  /\ st \in {"success", "partial", "failed"}
                /\ c >= 500 => st = "success"
                /\ (0 < c /\ c < 500) => st = "partial"
                /\ c = 0 => st = "failed"

\* a returned result of status "partial"
C10_Witness ==
    \E r \in Requests :
        /\ Returned(r)
        /\ outcome[r].result[1].status = "partial"
        /\ outcome[r].result[1].confidence_score > 0
        /\ outcome[r].result[1].confidence_score < 500

\* C11: a failure of _store_result is swallowed: once the result of step 6
\* is built, process returns exactly that result (data, status,
\* confidence_score, extraction_method, cost_usd) whether or not the row
\* was stored, and nothing raised by _store_result reaches the caller.
C11_StoreFailureSwallowed ==
    \A r \in Requests :
        /\ outcome[r].origin # "store_result"
        /\ (Done(r) /\ ~IsNone(local[r].result)) =>
               /\ outcome[r].kind = "returned"
               /\ outcome[r].result = local[r].result

\* a result returned although no row was stored
C11_Witness ==
    \E r \in Requests :
        /\ Returned(r)
        /\ trace[r].store_failed
        /\ IsNone(records[r])
        /\ outcome[r].result = local[r].result
        /\ ~IsNone(outcome[r].result)

\* C12: one extract_receipt invocation makes at most 3 HTTP requests; a
\* further attempt follows only a connection failure, a timeout or an HTTP
\* error status; the attempt that is refused by the budget gate issues no
\* request and is the last one; any other failure ends the invocation
\* without retry; a success on the first attempt means exactly one
\* request.
C12_RetryPolicy ==
    /\ [](\A r \in Requests :
            /\ trace[r].http_requests <= 3
            /\ vlm[r].attempt <= 3
            /\ pc[r] \in {"get_daily", "get_monthly", "post"} =>
                   trace[r].http_requests = vlm[r].attempt - 1
            /\ trace[r].vlm = "budget_refused" =>
                   trace[r].http_requests = vlm[r].attempt - 1
            /\ (pc[r] \in {"record_cost", "parse"} /\ vlm[r].attempt = 1) =>
                   trace[r].http_requests = 1)
    /\ [][\A r \in Requests :
            /\ (vlm[r].attempt >= 1 /\ vlm'[r].attempt > vlm[r].attempt) =>
                   /\ trace'[r].http_requests = trace[r].http_requests + 1
                   /\ trace'[r].last_failure \in
                          {"ConnectError", "TimeoutException", "HTTPStatusError"}
            /\ (trace[r].vlm = "budget_refused"
                    /\ trace'[r].vlm = "budget_refused") =>
                   /\ trace'[r].http_requests = trace[r].http_requests
                   /\ vlm'[r].attempt = vlm[r].attempt
            /\ (trace'[r].http_requests > trace[r].http_requests
                    /\ trace'[r].last_failure \notin
                          {"none", "ConnectError", "TimeoutException",
                           "HTTPStatusError"}) =>
                   /\ vlm'[r].attempt = vlm[r].attempt
                   /\ pc'[r] = "validate"
       ]_vars

\* three requests, each ended by a retried failure
C12_Witness ==
    \E r \in Requests :
        /\ trace[r].vlm = "retry_exhausted"
        /\ trace[r].http_requests = 3
        /\ vlm[r].attempt = 3

\* C13: every HTTP exchange that returned a success status appends
\* exactly one cost_tracker row with the call's model, token counts and
\* cost, whether or not the content later parses; attempts ending in a
\* connection failure, a timeout, an HTTP error status or a budget refusal
\* append none.
C13_OneRowPerCompletedCall ==
    \A r \in Requests :
        /\ pc[r] # "record_cost" =>
               trace[r].ledger_rows = trace[r].success_statuses
        /\ pc[r] = "record_cost" =>
               trace[r].ledger_rows = trace[r].success_statuses - 1
        /\ trace[r].vlm \in {"budget_refused", "retry_exhausted"} =>
               trace[r].ledger_rows = 0
        /\ pc[r] = "parse" =>
               ledger[Len(ledger)] =
                   [model |-> vlm[r].model[1],
                    input_tokens |-> vlm[r].response[1].usage.prompt_tokens,
                    output_tokens |-> vlm[r].response[1].usage.completion_tokens,
                    cost_usd |-> estimate_cost(vlm[r].model[1],
                                    vlm[r].response[1].usage.prompt_tokens,
                                    vlm[r].response[1].usage.completion_tokens)]

\* C14: on a successful exchange the cost_tracker row of the call is
\* written before the content is read and parsed: whenever the content is
\* about to be read or has been parsed, with or without data, the row
\* exists.
C14_RecordBeforeParse ==
    \A r \in Requests :
        /\ pc[r] = "parse" => trace[r].ledger_rows = 1
        /\ trace[r].vlm \in {"data", "no_data"} => trace[r].ledger_rows = 1
        /\ (trace[r].vlm = "error" /\ trace[r].last_failure = "none") =>
               trace[r].ledger_rows = 1
        /\ trace[r].ledger_rows = 1 =>
               \E i \in DOMAIN ledger : ledger[i].cost_usd = vlm[r].cost

\* a content that did not parse, with the spend of its call recorded
C14_Witness ==
    \E r \in Requests :
        /\ trace[r].vlm = "no_data"
        /\ trace[r].ledger_rows = 1
        /\ ledger # <<>>
        /\ ledger[Len(ledger)].cost_usd > 0

\* C15: with a model_override extract_receipt never consults the daily or
\* monthly spend and is never refused; it calls exactly the named model
\* even when the monthly spend is at the limit or the daily spend at 95 %
\* of its limit, and the completed call is recorded in cost_tracker.
C15_OverrideBypassesGate ==
    \A r \in Requests :
        (HasOverride(r) /\ ~request[r].force_ocr) =>
            /\ trace[r].budget_checks = 0
            /\ trace[r].vlm # "budget_refused"
            /\ vlm[r].decision = "pending"
            /\ pc[r] \in {"post", "record_cost", "parse"} =>
                   vlm[r].model = request[r].model_override
            /\ (pc[r] = "parse" \/ trace[r].vlm \in {"data", "no_data"}) =>
                   /\ trace[r].ledger_rows = 1
                   /\ ledger[Len(ledger)].model = request[r].model_override[1]

\* an overridden call recorded while the gate would have refused
C15_Witness ==
    \E r \in Requests :
        /\ HasOverride(r)
        /\ pc[r] = "parse"
        /\ select_model(prior.daily, prior.earlier_days + prior.daily).refused
        /\ ledger[Len(ledger)].model = OverrideModel
        /\ trace[r].budget_checks = 0

\* C16: when the content of the reply is not a JSON object (text that is
\* not JSON, or JSON of another type) VLMExtractor.extract does not raise:
\* it returns no data with metadata carrying the raw content, the model,
\* the token usage and the cost, and process then runs the OCR extractor.
C16_NonJsonGivesNoData ==
    \A r \in Requests :
        ( /\ pc[r] \in {"validate", "ocr", "categorize", "store",
                         "returned", "raised"}
          /\ ~IsNone(vlm[r].response)
          /\ vlm[r].response[1].has_choices
          /\ vlm[r].response[1].content.t # "obj" ) =>
            /\ trace[r].vlm = "no_data"
            /\ pc[r] = "validate" => IsNone(local[r].receipt_data)
            /\ pc[r] # "validate" => IsNone(trace[r].primary_data)
            /\ local[r].metadata =
                   Some([model |-> vlm[r].model[1],
                         input_tokens |-> vlm[r].response[1].usage.prompt_tokens,
                         output_tokens |-> vlm[r].response[1].usage.completion_tokens,
                         cost_usd |-> vlm[r].cost,
                         raw_response |-> vlm[r].response[1].content])
            /\ PastOcrBranch(r) => trace[r].ocr_calls = 1

\* a content that is not JSON, followed by the OCR run
C16_Witness ==
    \E r \in Requests :
        /\ pc[r] = "categorize"
        /\ ~IsNone(vlm[r].response)
        /\ vlm[r].response[1].content = JInvalid
        /\ trace[r].vlm = "no_data"
        /\ trace[r].ocr_calls = 1

\* the reply of an invocation whose content has just been parsed
ReplyContentOf(r) == vlm[r].response[1].content
JustParsed(r) ==
    /\ pc[r] = "validate"
    /\ ~IsNone(vlm[r].response)
    /\ vlm[r].response[1].has_choices

\* what the fields of GivenFields say
GivenData ==
    [vendor |-> Some(<<"R","E","W","E">>),
     date |-> Some([y |-> 2026, m |-> 10, d |-> 30]),
     total_amount |-> Some(4783),
     currency |-> Some(<<"E","U","R">>),
     tax_amount |-> Some(763),
     tax_rate |-> Some(19),
     line_items |-> <<[description |-> Milk, quantity |-> None,
                       unit_price |-> None, total |-> 4783]>>,
     payment_method |-> Some(<<"c","a","r","d">>),
     receipt_number |-> Some(<<"4","7","1","1">>)]

\* C17: for a JSON object reply in which any subset of the schema fields
\* is absent or null, the VLM extractor returns a ReceiptData (not "no
\* data") in which each such field is null (an empty list for line_items)
\* and every other field keeps the value given.
C17_MissingFieldsAreNull ==
    \A r \in Requests :
        (JustParsed(r) /\ ReplyContentOf(r) \in RepliesWithMissing) =>
            LET reply == ReplyContentOf(r).v
                data == local[r].receipt_data
            IN  /\ ~IsNone(data)
                /\ \A f \in DataFields :
                       data[1][f] =
                           IF reply[f].t \in {"absent", "null"}
                           THEN (IF f = "line_items" THEN <<>> ELSE None)
                           ELSE GivenData[f]

WellFormedItem(item) == item \in {ItemGoodA, ItemGoodB}
ExpectedItem(item) ==
    IF item = ItemGoodA
    THEN [description |-> Milk, quantity |-> None, unit_price |-> None,
          total |-> 4183]
    ELSE [description |-> Tea, quantity |-> Some(200), unit_price |-> None,
          total |-> 600]

\* C18: line items are parsed item by item: each malformed item (an entry
\* that is not an object, a negative total, a missing or non-string
\* description, a total that does not parse as a number) is dropped and
\* every well-formed item is kept, in its original order, however many
\* malformed items precede or follow it.
C18_MalformedItemsDropped ==
    \A r \in Requests :
        (JustParsed(r) /\ ReplyContentOf(r) \in RepliesWithItems) =>
            LET items == ReplyContentOf(r).v.line_items.v
                kept == SelectSeq(items, WellFormedItem)
                data == local[r].receipt_data
            IN  /\ ~IsNone(data)
                /\ data[1].line_items =
                       [i \in 1..Len(kept) |-> ExpectedItem(kept[i])]

\* a numeric string as the claim reads it: blanks around an optional sign
\* and digits with at most one decimal comma or point
IsNumericString(str) ==
    LET t == Strip(str)
        signed == t # <<>> /\ t[1] \in {"+", "-"}
        body == IF signed THEN Tail(t) ELSE t
        marks == {i \in 1..Len(body) : body[i] \in {",", "."}}
    IN  /\ Cardinality(marks) <= 1
        /\ \A i \in (1..Len(body)) \ marks : IsDigit(body[i])
        /\ Len(body) > Cardinality(marks)

\* its value in hundredths
NumericValue(str) ==
    LET t == Strip(str)
        negative == t[1] = "-"
        body == IF t[1] \in {"+", "-"} THEN Tail(t) ELSE t
        marks == {i \in 1..Len(body) : body[i] \in {",", "."}}
        cut == IF marks = {} THEN Len(body) + 1 ELSE CHOOSE i \in marks : TRUE
        whole == DigitsVal(SubSeq(body, 1, cut - 1))
        tenths == IF cut + 1 <= Len(body) THEN DigitVal(body[cut + 1]) ELSE 0
        hundredths == IF cut + 2 <= Len(body) THEN DigitVal(body[cut + 2]) ELSE 0
        magnitude == 100 * whole + 10 * tenths + hundredths
    IN  IF negative THEN 0 - magnitude ELSE magnitude

ExpectedNumber(value) ==
    IF value.t = "num" THEN Some(value.v)
    ELSE IF value.t = "str" /\ IsNumericString(value.v)
    THEN Some(NumericValue(value.v))
    ELSE None

ScoredFields == {"vendor", "date", "total", "line_items", "tax", "format"}

\* C20: for every ReceiptData and both values of the parsed-cleanly flag
\* validate_and_score returns an overall confidence in [0, 1] and every
\* per-field score (vendor, date, total, line_items, tax, format) in
\* [0, 1].
C20_ScoresInUnitInterval ==
    \A r \in Requests :
        /\ local[r].confidence >= 0 /\ local[r].confidence <= 1000
        /\ trace[r].primary_confidence >= 0
        /\ trace[r].primary_confidence <= 1000
        /\ ~IsNone(trace[r].field_scores) =>
               \A f \in ScoredFields :
                   /\ trace[r].field_scores[1][f] >= 0
                   /\ trace[r].field_scores[1][f] <= 1000
        /\ outcome[r].origin # "build_result"

\* a tax larger than the total: the penalised tax score is still in range
C20_Witness ==
    \E r \in Requests :
        /\ ~IsNone(trace[r].field_scores)
        /\ trace[r].field_scores[1].tax = 450
        /\ local[r].confidence > 0

----------------------------------------------------------------------------
(* Validator: weights, purity, line_items and tax scores *)

\* C21: the six weights are vendor .15, date .15, total .25, line_items .25,
\* tax .10 and format .10, they sum to 1.0, and the confidence every call
\* of validate_and_score returns is the sum over exactly these six fields
\* of field score times field weight (rounded to three decimals).
C21_ConfidenceIsWeightedSum ==
    /\ WEIGHTS = [vendor |-> 15, date |-> 15, total |-> 25, line_items |-> 25,
                  tax |-> 10, format |-> 10]
    /\ WEIGHTS.vendor + WEIGHTS.date + WEIGHTS.total + WEIGHTS.line_items
           + WEIGHTS.tax + WEIGHTS.format = 100
    /\ \A r \in Requests : \A i \in 1..Len(trace[r].validations) :
           LET returned == trace[r].validations[i].returned
               fs == returned.field_scores
           IN  /\ DOMAIN fs = {"vendor", "date", "total", "line_items",
                               "tax", "format"}
               /\ returned.confidence =
                      Round3(fs.vendor * 15 + fs.date * 15 + fs.total * 25
                             + fs.line_items * 25 + fs.tax * 10 + fs.format * 10)

\* a call whose six scores are all positive and not all alike
C21_Witness ==
    \E r \in Requests : \E i \in 1..Len(trace[r].validations) :
        LET fs == trace[r].validations[i].returned.field_scores
        IN  /\ fs.vendor = 1000 /\ fs.date = 500 /\ fs.total = 300
            /\ fs.line_items = 400 /\ fs.tax = 650 /\ fs.format = 1000
            /\ trace[r].validations[i].returned.confidence = 565

\* what a step that calls validate_and_score leaves alone: the cost
\* ledger, the earlier spend, the stored rows and the other invocations
ValidatorFrame ==
    \A r \in Requests :
        Len(trace'[r].validations) > Len(trace[r].validations) =>
            /\ ledger' = ledger /\ prior' = prior /\ records' = records
            /\ \A q \in Requests \ {r} :
                   /\ local'[q] = local[q] /\ trace'[q] = trace[q]
                   /\ vlm'[q] = vlm[q] /\ outcome'[q] = outcome[q]

RatioScore(items_sum, total) ==
    IF 10 * items_sum >= 9 * total /\ 10 * items_sum <= 11 * total THEN 1000
    ELSE IF 10 * items_sum >= 7 * total /\ 10 * items_sum <= 13 * total THEN 700
    ELSE 400

UsableTotal(data) == ~IsNone(data.total_amount) /\ data.total_amount[1] > 0

\* C23 as stated: the line_items score is 0.3 for an empty item list;
\* otherwise, with a positive declared total, 1.0 / 0.7 / 0.4 by the ratio
\* of the item totals to it (0.4 for every ratio outside [0.7, 1.3]); and
\* 0.6 only when the declared total is absent or not positive.
C23_LineItemsScore_AsStated ==
    \A r \in Requests : \A i \in 1..Len(trace[r].validations) :
        LET data == trace[r].validations[i].data
            score == trace[r].validations[i].returned.field_scores.line_items
        IN  /\ data.line_items = <<>> => score = 300
            /\ (data.line_items # <<>> /\ UsableTotal(data)) =>
                   score = RatioScore(SumTotals(data.line_items),
                                      data.total_amount[1])
            /\ score = 600 => (data.line_items # <<>> /\ ~UsableTotal(data))

\* C23: the line_items score is 0.3 for an empty item list; otherwise,
\* when the declared total and the sum of the item totals are both
\* positive, 1.0 / 0.7 / 0.4 by their ratio; and 0.6 exactly when there
\* are items and the declared total is absent or not positive or the item
\* totals sum to zero.
C23_LineItemsScore ==
    \A r \in Requests : \A i \in 1..Len(trace[r].validations) :
        LET data == trace[r].validations[i].data
            score == trace[r].validations[i].returned.field_scores.line_items
            items_sum == SumTotals(data.line_items)
        IN  /\ data.line_items = <<>> => score = 300
            /\ (data.line_items # <<>> /\ UsableTotal(data) /\ items_sum > 0) =>
                   score = RatioScore(items_sum, data.total_amount[1])
            /\ score = 600 <=>
                   /\ data.line_items # <<>>
                   /\ (~UsableTotal(data) \/ items_sum <= 0)

\* items whose totals sum to zero were scored against a positive total
C23_Witness ==
    \E r \in Requests : \E i \in 1..Len(trace[r].validations) :
        LET data == trace[r].validations[i].data
        IN  /\ data.line_items # <<>>
            /\ SumTotals(data.line_items) = 0
            /\ UsableTotal(data)
            /\ trace[r].validations[i].returned.field_scores.line_items = 600

\* C24: the tax score is 0.5 when neither tax amount nor tax rate is
\* present; otherwise 0.5, plus 0.25 for a positive tax amount, minus 0.3
\* when the tax amount exceeds the total, plus 0.25 for a rate of 0, 7, 19,
\* 20, 21 or 25 percent or else 0.15 for a rate within 0-30 percent, at
\* most 1.0; and a positive tax amount above the total with no rate
\* present always scores below 0.5.
C24_TaxScore ==
    \A r \in Requests : \A i \in 1..Len(trace[r].validations) :
        LET data == trace[r].validations[i].data
            score == trace[r].validations[i].returned.field_scores.tax
            exceeds == /\ ~IsNone(data.tax_amount) /\ ~IsNone(data.total_amount)
                       /\ data.tax_amount[1] > data.total_amount[1]
            amount_part == IF ~IsNone(data.tax_amount) /\ data.tax_amount[1] > 0
                           THEN 250 ELSE 0
            penalty == IF exceeds /\ data.tax_amount[1] > 0 THEN 300 ELSE 0
            rate_part == IF IsNone(data.tax_rate) THEN 0
                         ELSE IF data.tax_rate[1] \in {0, 7, 19, 20, 21, 25} THEN 250
                         ELSE IF 0 < data.tax_rate[1] /\ data.tax_rate[1] < 30
                         THEN 150 ELSE 0
        IN  /\ (IsNone(data.tax_amount) /\ IsNone(data.tax_rate)) => score = 500
            /\ ~(IsNone(data.tax_amount) /\ IsNone(data.tax_rate)) =>
                   score = Min(500 + amount_part - penalty + rate_part, 1000)
            /\ (exceeds /\ data.tax_amount[1] > 0 /\ IsNone(data.tax_rate)) =>
                   score < 500

----------------------------------------------------------------------------
(* Categorizer *)

\* the data step 5 hands to categorize: what the latest call of
\* validate_and_score returned
Categorized(r) ==
    trace[r].validations[Len(trace[r].validations)].returned.data

\* vendor and item descriptions, lower-cased and joined
Haystack(data) ==
    JoinSpace((IF ~IsNone(data.vendor) /\ data.vendor[1] # <<>>
               THEN <<Lower(data.vendor[1])>> ELSE <<>>)
              \o [i \in 1..Len(data.line_items) |->
                     Lower(data.line_items[i].description)])

KeywordOccurs(k, text) ==
    \E j \in 1..Len(KEYWORD_CATEGORIES[k].keywords) :
        Contains(text, KEYWORD_CATEGORIES[k].keywords[j])

\* C25: categorize returns exactly one category of the enumeration: the
\* first category in table order one of whose keywords occurs, in any
\* case, in the vendor name and item descriptions taken together; an
\* earlier table entry wins over a later one; "other" when no keyword
\* occurs; and the data given is not modified.
C25_FirstMatchingCategory ==
    \A r \in Requests :
        (pc[r] = "store" /\ trace[r].validations # <<>>) =>
            LET given == Categorized(r)
                text == Haystack(given)
                category == local[r].result[1].data.category
            IN  /\ category \in ExpenseCategory
                /\ category = "other" =>
                       \A k \in 1..Len(KEYWORD_CATEGORIES) : ~KeywordOccurs(k, text)
                /\ category # "other" =>
                       \E k \in 1..Len(KEYWORD_CATEGORIES) :
                           /\ KEYWORD_CATEGORIES[k].category = category
                           /\ KeywordOccurs(k, text)
                           /\ \A h \in 1..(k - 1) : ~KeywordOccurs(h, text)
                /\ SameFields(local[r].result[1].data, given)

\* keywords of restaurant, transport and entertainment all occur, the
\* upper-case one in an item description, and the earliest entry won
C25_Witness ==
    \E r \in Requests :
        /\ pc[r] = "store"
        /\ trace[r].validations # <<>>
        /\ Len(Categorized(r).line_items) = 2
        /\ KeywordOccurs(2, Haystack(Categorized(r)))
        /\ KeywordOccurs(3, Haystack(Categorized(r)))
        /\ KeywordOccurs(6, Haystack(Categorized(r)))
        /\ ~KeywordOccurs(1, Haystack(Categorized(r)))
        /\ local[r].result[1].data.category = "restaurant"

----------------------------------------------------------------------------
(* OCR extractor *)

\* the three written forms of a date
IsDayMonthYear(str) ==
    /\ Len(str) = 10
    /\ \A i \in {1, 2, 4, 5, 7, 8, 9, 10} : IsDigit(str[i])
    /\ str[3] \in {".", "/"} /\ str[6] \in {".", "/"}
IsIsoForm(str) ==
    /\ Len(str) = 10
    /\ \A i \in {1, 2, 3, 4, 6, 7, 9, 10} : IsDigit(str[i])
    /\ str[5] = "-" /\ str[8] = "-"
IsDayMonthShortYear(str) ==
    /\ Len(str) = 8
    /\ \A i \in {1, 2, 4, 5, 7, 8} : IsDigit(str[i])
    /\ str[3] \in {".", "/"} /\ str[6] \in {".", "/"}

\* the century digits of a two-digit year: below 50 in the 2000s
Century(yy) ==
    IF yy[1] \in {"0", "1", "2", "3", "4"} THEN <<"2","0">> ELSE <<"1","9">>

\* C26: the OCR date normalization maps every DD.MM.YYYY string to
\* YYYY-MM-DD, leaves every YYYY-MM-DD string unchanged, so that
\* normalizing twice equals normalizing once, maps every DD.MM.YY string
\* to YYYY-MM-DD with years below 50 in the 2000s and the others in the
\* 1900s, and always gives a string in YYYY-MM-DD form.
C26_DateNormalization ==
    \A r \in Requests :
        (~IsNone(trace[r].ocr_text) /\ ~IsNone(trace[r].ocr_text[1].date_str)) =>
            LET str == trace[r].ocr_text[1].date_str[1]
                out == trace[r].ocr_date
            IN  /\ IsDayMonthYear(str) =>
                       out = Some(SubSeq(str, 7, 10) \o <<"-">> \o SubSeq(str, 4, 5)
                                  \o <<"-">> \o SubSeq(str, 1, 2))
                /\ IsIsoForm(str) => out = Some(str)
                /\ IsDayMonthShortYear(str) =>
                       out = Some(Century(SubSeq(str, 7, 8)) \o SubSeq(str, 7, 8)
                                  \o <<"-">> \o SubSeq(str, 4, 5)
                                  \o <<"-">> \o SubSeq(str, 1, 2))
                /\ ~IsNone(out)
                /\ IsIsoForm(out[1])
                /\ _normalize_date(out[1]) = out

\* a DD/MM/YY date of the 1900s was normalized and process returned it
C26_Witness ==
    \E r \in Requests :
        /\ Returned(r)
        /\ trace[r].ocr_text # None
        /\ trace[r].ocr_text[1].date_str = Some(<<"0","7","/","0","2",".","9","9">>)
        /\ trace[r].ocr_date = Some(<<"1","9","9","9","-","0","2","-","0","7">>)
        /\ outcome[r].result[1].data.date = Some([y |-> 1999, m |-> 2, d |-> 7])

\* C27: for every recognized text, one holding date-like digits that name
\* no calendar date and one matching no pattern included, the OCR
\* extractor returns a ReceiptData, reports no cost, and does not raise.
C27_OcrExtractorNeverRaises ==
    \A r \in Requests :
        ~IsNone(trace[r].ocr_text) =>
            /\ ~IsNone(trace[r].ocr_data)
            /\ outcome[r].origin # "ocr_extractor"
            /\ (Returned(r) /\ request[r].force_ocr) =>
                   outcome[r].result[1].cost_usd = 0

\* C28: the OCR extractor never fills line items: the ReceiptData it
\* returns has an empty line_items list, and so has every result of
\* process whose extraction_method is "ocr".
C28_OcrHasNoLineItems ==
    \A r \in Requests :
        /\ ~IsNone(trace[r].ocr_data) => trace[r].ocr_data[1].line_items = <<>>
        /\ (~IsNone(local[r].result)
              /\ local[r].result[1].extraction_method = "ocr") =>
               local[r].result[1].data.line_items = <<>>

\* process returned what the OCR extractor read from a receipt text
C28_Witness ==
    \E r \in Requests :
        /\ Returned(r)
        /\ trace[r].ocr_calls = 1
        /\ outcome[r].result[1].extraction_method = "ocr"
        /\ ~IsNone(outcome[r].result[1].data.vendor)
        /\ ~IsNone(outcome[r].result[1].data.total_amount)
        /\ outcome[r].result[1].data.line_items = <<>>

----------------------------------------------------------------------------
(* Cost of a call *)

\* the rates of a model, in cents per 1M tokens: its own when the table
\* lists it, 1.0 / 1.0 when not
RatesOf(model) ==
    IF model \in DOMAIN MODEL_COSTS THEN MODEL_COSTS[model]
    ELSE [input |-> 100, output |-> 100]

\* C29: the cost of a call is input_tokens / 1e6 times the input rate plus
\* output_tokens / 1e6 times the output rate, with the rates listed for
\* the model or 1.0 / 1.0 per 1M for an unlisted one: at 0.15 / 0.60 a
\* call of 1,000,000 + 1,000,000 tokens costs 0.75, and on an unknown
\* model 2.0.
C29_CostFromRates ==
    /\ \A r \in Requests :
           ~IsNone(vlm[r].response) =>
               LET usage == vlm[r].response[1].usage
                   rates == RatesOf(vlm[r].model[1])
               IN  vlm[r].cost = usage.prompt_tokens * rates.input
                                 + usage.completion_tokens * rates.output
    /\ \A i \in 1..Len(ledger) :
           LET row == ledger[i]
               rates == RatesOf(row.model)
               full == row.input_tokens = 1000000 /\ row.output_tokens = 1000000
           IN  /\ row.cost_usd = row.input_tokens * rates.input
                                 + row.output_tokens * rates.output
               /\ (full /\ rates = [input |-> 15, output |-> 60]) =>
                      row.cost_usd = 75000000
               /\ (full /\ row.model \notin DOMAIN MODEL_COSTS) =>
                      row.cost_usd = 200000000

\* a 0.15 / 0.60 model and a model of no table were each called with
\* 1,000,000 + 1,000,000 tokens and their costs recorded
C29_Witness ==
    /\ \E i \in 1..Len(ledger) :
           /\ ledger[i].model = "openai/gpt-4o-mini"
           /\ ledger[i].input_tokens = 1000000 /\ ledger[i].output_tokens = 1000000
           /\ ledger[i].cost_usd = 75000000
    /\ \E i \in 1..Len(ledger) :
           /\ ledger[i].model = "unknown/model"
           /\ ledger[i].input_tokens = 1000000 /\ ledger[i].output_tokens = 1000000
           /\ ledger[i].cost_usd = 200000000

\* C30: the configured default model and the configured fallback model
\* are models of the pricing table, so a call to either is recorded at
\* that model's own rates: 1,000,000 + 1,000,000 tokens on the default
\* model cost 0.30.
C30_ConfiguredModelsPriced ==
    \A i \in 1..Len(ledger) :
        LET row == ledger[i]
        IN  row.model \in {DefaultModel, FallbackModel} =>
                /\ row.model \in DOMAIN MODEL_COSTS
                /\ (row.model = DefaultModel /\ row.input_tokens = 1000000
                      /\ row.output_tokens = 1000000) =>
                       row.cost_usd = 30000000

----------------------------------------------------------------------------
(* Results of process *)

NonNegativeTotals(data) ==
    \A i \in 1..Len(data.line_items) : data.line_items[i].total >= 0

C32_UnsupportedTypeStopsAll ==
    \A r \in Requests :
        (pc[r] \notin {"idle", "preprocess"}
          /\ request[r].content_type
                 \notin {"image/jpeg", "image/png", "application/pdf"}) =>
            /\ pc[r] = "raised"
            /\ outcome[r] = [kind |-> "raised", result |-> None,
                             error |-> "ValueError", origin |-> "preprocess"]
            /\ trace[r].vlm = "not_called"
            /\ trace[r].budget_checks = 0
            /\ trace[r].http_requests = 0
            /\ trace[r].ledger_rows = 0
            /\ trace[r].ocr_calls = 0
            /\ trace[r].validations = <<>>
            /\ records[r] = None
            /\ local[r] = IdleLocal

\* a text/plain upload was refused after an earlier request had been
\* served and charged
C32_Witness ==
    \E r \in Requests :
        /\ pc[r] = "raised"
        /\ request[r].content_type = "text/plain"
        /\ outcome[r].error = "ValueError"
        /\ outcome[r].origin = "preprocess"
        /\ Len(ledger) = 1

\* the result of process as a function of what one invocation is given:
\* its force_ocr flag, what its VLM extractor returned (data, model and
\* cost; None and 0 when it was skipped or raised) and the text OCR reads
ResultAlone(force_ocr, primary, model_used, cost_usd, text) ==
    LET first == IF IsNone(primary) THEN 0
                 ELSE validate_and_score(primary[1], TRUE).confidence
        needs == IsNone(primary) \/ first < 500 \/ force_ocr
        ocr == _parse_ocr_text(text[1]).data
        data == IF ~needs THEN primary[1]
                ELSE IF IsNone(primary) THEN ocr
                ELSE _merge_results(primary[1], ocr)
        confidence == IF ~needs THEN first
                      ELSE validate_and_score(data, ~IsNone(primary)).confidence
    IN  [status |-> StatusOf(confidence),
         data |-> [data EXCEPT !.category = categorize(data)],
         confidence_score |-> confidence,
         extraction_method |-> IF ~needs THEN "vlm"
                               ELSE IF IsNone(primary) THEN "ocr" ELSE "hybrid",
         model_used |-> model_used,
         cost_usd |-> cost_usd]

\* C33: invocations that overlap share nothing but the spend ledger: the
\* result of one with force_ocr is what it is when run alone, and the
\* result of any other depends on the rest only through the daily and
\* monthly totals its own budget gate read.
C33_OnlyLedgerShared ==
    \A r \in Requests :
        Returned(r) =>
            IF request[r].force_ocr
            THEN /\ vlm[r] = IdleVlm
                 /\ trace[r].budget_checks = 0
                 /\ outcome[r].result[1]
                        = ResultAlone(TRUE, None, None, 0, trace[r].ocr_text)
            ELSE LET gate == select_model(vlm[r].daily_spend, vlm[r].monthly_spend)
                     answered == /\ ~IsNone(vlm[r].response)
                                 /\ vlm[r].response[1].has_choices
                     body == vlm[r].response[1]
                 IN  /\ ~HasOverride(r) =>
                            /\ trace[r].vlm = "budget_refused" <=> gate.refused
                            /\ answered => vlm[r].model = gate.model
                     /\ outcome[r].result[1] =
                            IF answered
                            THEN ResultAlone(FALSE, ParseContent(body.content),
                                             vlm[r].model,
                                             estimate_cost(vlm[r].model[1],
                                                           body.usage.prompt_tokens,
                                                           body.usage.completion_tokens),
                                             trace[r].ocr_text)
                            ELSE ResultAlone(FALSE, None, None, 0,
                                             trace[r].ocr_text)

\* two invocations read the same spend before either recorded its call,
\* and both were answered and returned a merged result
C33_Witness ==
    \E r \in Requests : \E q \in Requests \ {r} :
        /\ Returned(r) /\ Returned(q)
        /\ ~request[r].force_ocr /\ ~request[q].force_ocr
        /\ trace[r].ledger_rows = 1 /\ trace[q].ledger_rows = 1
        /\ vlm[r].daily_spend = prior.daily
        /\ vlm[q].daily_spend = prior.daily
        /\ Len(ledger) = 2
        /\ outcome[r].result[1].extraction_method = "hybrid"

----------------------------------------------------------------------------
(* Budget gate and retries *)

\* the steps of select_model read the totals as they are at that moment
GateReadsCurrentSpend ==
    \A r \in Requests :
        /\ (pc[r] = "get_daily" /\ pc'[r] = "get_monthly") =>
               vlm'[r].daily_spend = prior.daily + SumCost(ledger)
        /\ (pc[r] = "get_monthly" /\ pc'[r] # "get_monthly") =>
               vlm'[r].monthly_spend
                   = prior.earlier_days + prior.daily + SumCost(ledger)

\* C34: without model_override the budget gate runs before every HTTP
\* request to the VLM, retries included: each attempt reads the daily and
\* monthly spend again and selects the model again, so a retry is refused
\* (and the invocation makes no further attempt) or goes to another model
\* tier when spend recorded meanwhile has crossed a threshold.
C34_GateBeforeEveryAttempt ==
    /\ [](\A r \in Requests :
            ~HasOverride(r) =>
                /\ pc[r] = "post" =>
                       /\ trace[r].budget_checks = trace[r].http_requests + 1
                       /\ Len(trace[r].selected) = vlm[r].attempt
                       /\ vlm[r].attempt = trace[r].http_requests + 1
                       /\ vlm[r].model
                              = select_model(vlm[r].daily_spend,
                                             vlm[r].monthly_spend).model
                       /\ vlm[r].model = Some(trace[r].selected[vlm[r].attempt])
                /\ trace[r].vlm = "budget_refused" =>
                       /\ select_model(vlm[r].daily_spend,
                                       vlm[r].monthly_spend).refused
                       /\ trace[r].budget_checks = vlm[r].attempt
                       /\ trace[r].http_requests = vlm[r].attempt - 1
                       /\ pc[r] \notin {"get_daily", "get_monthly", "post"})
    /\ [][GateReadsCurrentSpend]_vars

\* a retry went to the fallback model after a first attempt on the
\* default model: another invocation recorded its cost in between
C34_Witness ==
    \E r \in Requests :
        /\ pc[r] = "post"
        /\ vlm[r].attempt = 2
        /\ trace[r].selected = <<DefaultModel, FallbackModel>>
        /\ Len(ledger) = 1

\* a retry was refused after the first attempt had been let through
RetryRefused ==
    \E q \in Requests :
        /\ trace[q].vlm = "budget_refused"
        /\ trace[q].http_requests >= 1
        /\ Len(trace[q].selected) = trace[q].http_requests

----------------------------------------------------------------------------
(* Category of the returned data *)

\* the data left when step 4 is over, by the method the result names: what
\* the VLM reply parsed to, what OCR read, or the two merged
Survivor(r) ==
    LET method == outcome[r].result[1].extraction_method
        ocr_data == _parse_ocr_text(trace[r].ocr_text[1]).data
    IN  IF method = "vlm" THEN ParseContent(ReplyContentOf(r))[1]
        ELSE IF method = "ocr" THEN ocr_data
        ELSE _merge_results(ParseContent(ReplyContentOf(r))[1], ocr_data)

\* C35: on every path through process the category of the returned data
\* is the categorizer's answer for the data that survived step 4 (after
\* the OCR substitution or the merge), it is one of the enumeration, and
\* the empty-record fallback is never needed: data is there at step 5.
C35_CategoryOfSurvivingData ==
    \A r \in Requests :
        /\ pc[r] = "categorize" =>
               /\ ~IsNone(local[r].receipt_data)
               /\ trace[r].validations # <<>>
        /\ Returned(r) =>
               LET data == outcome[r].result[1].data
                   survivor == Survivor(r)
               IN  /\ data = [survivor EXCEPT !.category = categorize(survivor)]
                   /\ data.category \in ExpenseCategory

\* a merged result whose category is not the one the VLM data had before
\* the merge: the vendor OCR read decided it
C35_Witness ==
    \E r \in Requests :
        /\ Returned(r)
        /\ outcome[r].result[1].extraction_method = "hybrid"
        /\ outcome[r].result[1].data.category
               # categorize(ParseContent(ReplyContentOf(r))[1])
        /\ outcome[r].result[1].data.category # "other"

----------------------------------------------------------------------------
(* One ledger row per invocation *)

\* a row is appended by record_cost alone, one at a time, and counted for
\* the invocation that awaited it
RowsFromRecordCost ==
    ledger' # ledger =>
        \E r \in Requests :
            /\ pc[r] = "record_cost"
            /\ pc'[r] = "parse"
            /\ trace[r].ledger_rows = 0
            /\ trace'[r].ledger_rows = 1
            /\ ledger' = Append(ledger, ledger'[Len(ledger')])
            /\ \A q \in Requests \ {r} : trace'[q] = trace[q]

\* C36: one invocation of extract_receipt appends at most one row to the
\* spend ledger, retries included: the failures that are retried
\* (connection failure, timeout, HTTP error status) all come before
\* record_cost, so the attempt that wrote the row is the last one and no
\* request is charged twice.
C36_ChargedAtMostOnce ==
    /\ [](\A r \in Requests :
            /\ trace[r].ledger_rows <= 1
            /\ trace[r].ledger_rows = 1 =>
                   /\ pc[r] \notin {"get_daily", "get_monthly", "post",
                                     "record_cost"}
                   /\ trace[r].last_failure = "none"
                   /\ ~IsNone(vlm[r].response)
                   /\ trace[r].http_requests = vlm[r].attempt
            /\ trace[r].last_failure \in RetriedFailures =>
                   trace[r].ledger_rows = 0)
    /\ [][RowsFromRecordCost]_vars

\* two attempts failed and were retried, the third was answered and is
\* the only one in the ledger
C36_Witness ==
    \E r \in Requests :
        /\ Returned(r)
        /\ vlm[r].attempt = MaxAttempts
        /\ trace[r].http_requests = MaxAttempts
        /\ trace[r].ledger_rows = 1
        /\ Len(ledger) = 1

----------------------------------------------------------------------------
(* Cost and model of the result *)

\* C37: cost_usd and model_used of a returned result come from the
\* request's VLM call alone: when the VLM extractor returned, with data or
\* with none after a parse failure, they are the cost recorded for the
\* call and its model, whatever the method ends as; when it was skipped or
\* raised they are 0 and null; running OCR adds nothing.
C37_CostAndModelFromVlmCall ==
    \A r \in Requests :
        Returned(r) =>
            LET result == outcome[r].result[1]
            IN  IF trace[r].vlm \in {"data", "no_data"}
                THEN /\ trace[r].ledger_rows = 1
                     /\ \E i \in 1..Len(ledger) :
                            /\ ledger[i].cost_usd = result.cost_usd
                            /\ Some(ledger[i].model) = result.model_used
                            /\ ledger[i].input_tokens
                                   = vlm[r].response[1].usage.prompt_tokens
                            /\ ledger[i].output_tokens
                                   = vlm[r].response[1].usage.completion_tokens
                     /\ result.cost_usd = vlm[r].cost
                     /\ result.model_used = vlm[r].model
                ELSE /\ trace[r].vlm \in {"not_called"} \cup VlmRaisedKinds
                     /\ result.cost_usd = 0
                     /\ result.model_used = None

\* the reply could not be parsed and OCR supplied the data, yet the
\* result carries the model and the cost of the VLM call
C37_Witness ==
    \E r \in Requests :
        /\ Returned(r)
        /\ trace[r].vlm = "no_data"
        /\ trace[r].ocr_calls = 1
        /\ outcome[r].result[1].extraction_method = "ocr"
        /\ outcome[r].result[1].cost_usd > 0
        /\ outcome[r].result[1].model_used = Some(DefaultModel)

----------------------------------------------------------------------------
(* Method and confidence of the result *)

\* the confidence of the data the VLM reply parsed to, scored alone
VlmOnlyConfidence(r) ==
    validate_and_score(ParseContent(ReplyContentOf(r))[1], TRUE).confidence

\* C38: a returned result of method "vlm" has a confidence_score of at
\* least 0.5 and status "success"; one of method "hybrid" had a VLM-only
\* confidence below 0.5 before the merge; method "vlm" with status
\* "partial" or "failed" does not occur.
C38_MethodBoundsConfidence ==
    \A r \in Requests :
        Returned(r) =>
            LET result == outcome[r].result[1]
            IN  /\ result.extraction_method = "vlm" =>
                       /\ result.confidence_score >= 500
                       /\ result.confidence_score = VlmOnlyConfidence(r)
                       /\ result.status = "success"
                       /\ Len(trace[r].validations) = 1
                /\ result.extraction_method = "hybrid" =>
                       /\ VlmOnlyConfidence(r) < 500
                       /\ trace[r].primary_confidence = VlmOnlyConfidence(r)
                       /\ trace[r].validations[1].returned.confidence
                              = VlmOnlyConfidence(r)
                       /\ Len(trace[r].validations) = 2
                /\ ~(/\ result.extraction_method = "vlm"
                      /\ result.status \in {"partial", "failed"})

\* a merged result that reached 0.5 although the VLM data alone had not
C38_Witness ==
    \E r \in Requests :
        /\ Returned(r)
        /\ outcome[r].result[1].extraction_method = "hybrid"
        /\ VlmOnlyConfidence(r) < 500
        /\ outcome[r].result[1].confidence_score >= 500
        /\ outcome[r].result[1].status = "success"

----------------------------------------------------------------------------
(* Lowest confidence *)

\* C39: whatever data and flag it is given, validate_and_score returns an
\* overall confidence of at least 0.155 (line_items scores at least 0.3,
\* tax at least 0.45, format at least 0.3), never 0; process runs the
\* validator on every path that returns, so no returned result has
\* confidence_score 0.
C39_ConfidenceNeverZero ==
    \A r \in Requests :
        /\ \A i \in 1..Len(trace[r].validations) :
               LET returned == trace[r].validations[i].returned
               IN  /\ returned.confidence >= 155
                   /\ returned.field_scores.line_items >= 300
                   /\ returned.field_scores.tax >= 450
                   /\ returned.field_scores.format >= 300
        /\ Returned(r) =>
               /\ trace[r].validations # <<>>
               /\ outcome[r].result[1].confidence_score
                      = trace[r].validations[Len(trace[r].validations)]
                            .returned.confidence
               /\ outcome[r].result[1].confidence_score >= 155
               /\ outcome[r].result[1].confidence_score # 0

\* the lowest score is returned: nothing parsed from the reply and
\* nothing read by OCR
C39_Witness ==
    \E r \in Requests :
        /\ Returned(r)
        /\ trace[r].vlm = "no_data"
        /\ outcome[r].result[1].data = EmptyReceipt
        /\ ~trace[r].validations[1].vlm_parsed_cleanly
        /\ outcome[r].result[1].confidence_score = 155

----------------------------------------------------------------------------
(* The gate with one request at a time *)

\* recorded spend at or past a refusal threshold: 95% of the daily limit
\* or the monthly limit
SpendPastThreshold ==
    \/ prior.daily + SumCost(ledger) >= (DailyLimit \div 100) * 95
    \/ prior.earlier_days + prior.daily + SumCost(ledger) >= MonthlyLimit

\* spend as it was before the last row was recorded
BelowBeforeLastRow ==
    LET last == ledger[Len(ledger)].cost_usd
    IN  /\ prior.daily + SumCost(ledger) - last < (DailyLimit \div 100) * 95
        /\ prior.earlier_days + prior.daily + SumCost(ledger) - last
               < MonthlyLimit

\* C40: with requests processed one at a time and no model_override,
\* every HTTP request to the VLM is issued while the recorded daily spend
\* is below 95% of the daily limit and the recorded monthly spend below
\* the monthly limit; so the spend passes a threshold by at most the cost
\* of the one call that crossed it, and from then on every request is
\* refused and served by OCR alone.
C40_SerialGateHolds ==
    /\ [](\A r \in Requests :
            /\ pc[r] = "post" => ~SpendPastThreshold
            /\ (SpendPastThreshold /\ ledger # <<>>) => BelowBeforeLastRow
            /\ (/\ SpendPastThreshold
                 /\ trace[r].ledger_rows = 0
                 /\ trace[r].budget_checks > 0
                 /\ pc[r] \notin {"get_daily", "get_monthly"}) =>
                    /\ trace[r].vlm = "budget_refused"
                    /\ trace[r].http_requests = 0
                    /\ Returned(r) =>
                           /\ outcome[r].result[1].extraction_method = "ocr"
                           /\ outcome[r].result[1].cost_usd = 0
                           /\ outcome[r].result[1].model_used = None
                           /\ trace[r].ocr_calls = 1)
    /\ [][SpendPastThreshold => ledger' = ledger]_vars

\* a call took the spend past the threshold and the next request, which
\* did not ask for OCR, was refused and served by OCR
C40_Witness ==
    /\ SpendPastThreshold
    /\ Len(ledger) = 1
    /\ BelowBeforeLastRow
    /\ \E r \in Requests :
           /\ Returned(r)
           /\ ~request[r].force_ocr
           /\ trace[r].vlm = "budget_refused"
           /\ trace[r].ledger_rows = 0
           /\ outcome[r].result[1].extraction_method = "ocr"
====
